---------------------------- MODULE Spec2Model ----------------------------
(***************************************************************************)
(* A model of the app-monitoring instrumentation facade: the per-domain    *)
(* metric sets (Database, Cron Job, Downstream Service, Pub/Sub, Router,   *)
(* Application Error), their LogMetricsPre / LogMetricsPost / LogMetrics   *)
(* methods, and the metric vectors of the wrapped metrics client that      *)
(* those methods increment and observe.                                    *)
(*                                                                         *)
(* One behaviour exercises the metric set of one domain (the variable      *)
(* domain), built from any configuration of nil / non-nil sub-metrics.     *)
(* The metric sets share no state, so the domains are explored side by     *)
(* side rather than as a product.                                          *)
(*                                                                         *)
(* Representation.  A pointer that may be nil is a record with a field     *)
(* nil.  A CounterVec is the bag of the label-value tuples it was          *)
(* incremented with; a HistogramVec is the bag of <<labels, value>> pairs  *)
(* it observed; a GaugeVec is a function from label tuples to integers.    *)
(* Times and durations are integers, in clock units of which Millisecond  *)
(* make one millisecond.  A float64 is kept exactly, as the integer        *)
(* numerator of a fraction whose denominator is Millisecond.  A Go int is  *)
(* 64 bits wide: it is kept as a sign and a sequence of base-2^16 limbs.   *)
(* A decimal string produced by strconv.Itoa is the sequence of its        *)
(* characters.                                                             *)
(***************************************************************************)
EXTENDS Integers, Sequences, FiniteSets, Bags, TLC

VARIABLES
    domain,     \* the domain whose metric set this run exercises
    impl,       \* the implementation behind the interface: root, prom, noop, mock
    dm,         \* *DBMetrics
    cjm,        \* *CronJobMetrics
    dsm,        \* *DownstreamServiceMetrics
    psm,        \* *PSMetrics / *PromPSMetrics
    rlm,        \* *RouterMetrics
    cm,         \* *AppMetrics / *PromAppMetrics
    now,        \* the clock read by time.Now(), in nanoseconds
    pending,    \* the caller's operations between their Pre and their Post
    gc,         \* the gin context of the request inside the Router middleware
    last,       \* the most recent logging call: its name, arguments and result
    nPre,       \* number of LogMetricsPre calls made
    nPost,      \* number of LogMetricsPost calls made
    nPostTxn,   \* number of Pub/Sub LogMetricsPost calls with transaction data
    nCalls,     \* number of single-shot calls made (Router requests, App calls)
    phase,      \* "pre": only Pre calls so far; "post": Posts after the Pres;
                \* "mixed": some Pre was called after a Post
    fault,      \* a call panicked (nil dereference or label cardinality)
    registry,   \* the names registered in prometheus.DefaultRegisterer
    logged,     \* number of errors written to l.Logger
    exposed,    \* the collectors the registerer holds, as they are scraped
    tally,      \* per error code: occurrences logged less decrements called
    mock,       \* the Mock variant in use: its flags and recorded arguments
    threads     \* the goroutines calling the metric set concurrently

vars == <<domain, impl, dm, cjm, dsm, psm, rlm, cm, now, pending, gc, last,
          nPre, nPost, nPostTxn, nCalls, phase, fault,
          registry, logged, exposed, tally, mock, threads>>

---------------------------------------------------------------------------
(* Bounds of the model. *)

\* Operations (Pre/Post pairs, single-shot calls) per behaviour.
MaxOps == 2
\* Requests through the Router middleware per behaviour.
MaxRequests == 1
\* Clock steps per behaviour.
MaxTicks == 2

\* Constructor calls in one process sharing the default registerer.
MaxConstructions == 2

\* Downstream calls that process makes through the handles it holds.
MaxUses == 1

\* Goroutines calling one metric set at the same time.
MaxThreads == 2

\* The largest bucket count asked of the bucket generator.
MaxBuckets == 10
\* Resolution of the clock: the number of clock units in time.Millisecond.
Millisecond == 2

---------------------------------------------------------------------------
(* Program constants. *)

Total == "total"
Success == "success"
Failure == "failure"
HTTPStatus2XXMaxValue == 299
HTTPStatus2XXMinValue == 200

---------------------------------------------------------------------------
(* Values. *)

Nil == [nil |-> TRUE]

\* float64(i) for an integer i.
Float64(i) == i * Millisecond

\* Integer division rounding toward minus infinity.
Milliseconds_Floor(d) == d \div Millisecond

\* time.Duration.Milliseconds(): integer division truncating toward zero.
Milliseconds(d) ==
    IF d >= 0 THEN d \div Millisecond ELSE -((-d) \div Millisecond)

\* The elapsed time taken from the zero time instead of from t.
Since_Zero(t) == now

\* time.Since(t) on the monotonic clock.
Since(t) == now - t

---------------------------------------------------------------------------
(* The metrics client: vectors, WithLabelValues, Inc, Observe.             *)
(* A machine state m = [set, panic] threads a metric set through the       *)
(* statements of a method; after a panic the remaining statements do not   *)
(* run.                                                                    *)

NilVec == [nil |-> TRUE, labels |-> <<>>, samples |-> EmptyBag]

\* prometheus.NewCounterVec / NewHistogramVec with the given label names.
NewVec(labelNames) == [nil |-> FALSE, labels |-> labelNames, samples |-> EmptyBag]

Start(set) == [set |-> set, panic |-> FALSE]

\* Reading a field through the pointer p: a nil pointer dereference panics.
Deref(m, p) == IF p = Nil THEN [m EXCEPT !.panic = TRUE] ELSE m

\* An increment that stores one more than a value read before the other
\* goroutines' increments: the series ends at one whatever it held.
Inc_Lost(m, field, lvs) ==
    IF m.panic THEN m
    ELSE IF m.set[field].nil \/ Len(lvs) # Len(m.set[field].labels)
         THEN [m EXCEPT !.panic = TRUE]
         ELSE [m EXCEPT !.set[field].samples =
                   (@ (-) [x \in {lvs} |-> CopiesIn(lvs, @)]) (+) SetToBag({lvs})]

\* vec.WithLabelValues(lvs...).Inc(): panics on a nil vec and when the number
\* of values differs from the number of label names.
Inc(m, field, lvs) ==
    IF m.panic THEN m
    ELSE IF m.set[field].nil \/ Len(lvs) # Len(m.set[field].labels)
         THEN [m EXCEPT !.panic = TRUE]
         ELSE [m EXCEPT !.set[field].samples = @ (+) SetToBag({lvs})]

\* vec.WithLabelValues(lvs...).Observe(v).
Observe(m, field, lvs, v) ==
    IF m.panic THEN m
    ELSE IF m.set[field].nil \/ Len(lvs) # Len(m.set[field].labels)
         THEN [m EXCEPT !.panic = TRUE]
         ELSE [m EXCEPT !.set[field].samples = @ (+) SetToBag({<<lvs, v>>})]

\* Sum of the counts of the series of a counter whose status label (at
\* position pos) is in statuses.
RECURSIVE SumBag(_, _)
SumBag(b, S) ==
    IF S = {} THEN 0
    ELSE LET e == CHOOSE e \in S : TRUE
         IN  CopiesIn(e, b) + SumBag(b, S \ {e})

StatusSum(vec, pos, statuses) ==
    SumBag(vec.samples, {lvs \in BagToSet(vec.samples) : lvs[pos] \in statuses})

\* Number of observations a histogram holds.
ObsCount(vec) == SumBag(vec.samples, BagToSet(vec.samples))

---------------------------------------------------------------------------
(* Database. *)

DBCounterLabels == <<"op_type", "source", "entity", "is_txn", "status">>
DBLatencyLabels == <<"op_type", "source", "entity", "is_txn">>

DBLabelValues ==
    { [OpType |-> "select", Source |-> "UserRepository", AdEntity |-> "users", IsTxn |-> "false"],
      [OpType |-> "insert", Source |-> "UserRepository", AdEntity |-> "users", IsTxn |-> "true"] }

\* *ae.AppError: nil, or an error.
AppErrors == { Nil, [nil |-> FALSE, code |-> "ERR_DB"] }

\* NewDatabaseMetrics(meta): a sub-metric whose meta is nil stays nil.
NewDatabaseMetrics(meta) ==
    [ operationsTotal |->
        IF ~meta.OperationsTotal.nil THEN NewVec(meta.OperationsTotal.Labels) ELSE NilVec,
      operationsLatencyMillis |->
        IF ~meta.OperationsLatencyMillis.nil THEN NewVec(meta.OperationsLatencyMillis.Labels) ELSE NilVec ]

MetaOf(labels) == { Nil, [nil |-> FALSE, Labels |-> labels] }

DBMetricsMetas ==
    [ OperationsTotal : MetaOf(DBCounterLabels),
      OperationsLatencyMillis : MetaOf(DBLatencyLabels) ]

\* LogMetricsPre counting the call under "success" instead of "total".
DBMetrics_LogMetricsPre_AsSuccess(set, lv) ==
    LET m0 == Start(set)
    IN  IF ~m0.set.operationsTotal.nil
        THEN Inc(Deref(m0, lv), "operationsTotal", <<lv.OpType, lv.Source, lv.AdEntity, lv.IsTxn, Success>>)
        ELSE m0

DBMetrics_LogMetricsPre(set, lv) ==
    LET m0 == Start(set)
    IN  IF ~m0.set.operationsTotal.nil
        THEN Inc(Deref(m0, lv), "operationsTotal", <<lv.OpType, lv.Source, lv.AdEntity, lv.IsTxn, Total>>)
        ELSE m0

\* LogMetricsPost with the error test inverted.
DBMetrics_LogMetricsPost_Inverted(set, appErr, lv, opsExecTime) ==
    LET m0 == Start(set)
        m1 == IF ~m0.set.operationsTotal.nil
              THEN IF appErr.nil
                   THEN Inc(Deref(m0, lv), "operationsTotal", <<lv.OpType, lv.Source, lv.AdEntity, lv.IsTxn, Failure>>)
                   ELSE Inc(Deref(m0, lv), "operationsTotal", <<lv.OpType, lv.Source, lv.AdEntity, lv.IsTxn, Success>>)
              ELSE m0
        m2 == IF ~m1.set.operationsLatencyMillis.nil
              THEN Observe(Deref(m1, lv), "operationsLatencyMillis",
                           <<lv.OpType, lv.Source, lv.AdEntity, lv.IsTxn>>,
                           Float64(Milliseconds(Since(opsExecTime))))
              ELSE m1
    IN  m2

DBMetrics_LogMetricsPost(set, appErr, lv, opsExecTime) ==
    LET m0 == Start(set)
        m1 == IF ~m0.set.operationsTotal.nil
              THEN IF ~appErr.nil
                   THEN Inc(Deref(m0, lv), "operationsTotal", <<lv.OpType, lv.Source, lv.AdEntity, lv.IsTxn, Failure>>)
                   ELSE Inc(Deref(m0, lv), "operationsTotal", <<lv.OpType, lv.Source, lv.AdEntity, lv.IsTxn, Success>>)
              ELSE m0
        m2 == IF ~m1.set.operationsLatencyMillis.nil
              THEN Observe(Deref(m1, lv), "operationsLatencyMillis",
                           <<lv.OpType, lv.Source, lv.AdEntity, lv.IsTxn>>,
                           Float64(Milliseconds(Since(opsExecTime))))
              ELSE m1
    IN  m2

---------------------------------------------------------------------------
(* Cron Job. *)

CronCounterLabels == <<"job_name", "status">>
CronLatencyLabels == <<"job_name">>

CronJobLabelValues == { [JobName |-> "daily_cleanup"], [JobName |-> "hourly_sync"] }

NewCronJobMetrics(meta) ==
    [ jobExecutionTotal |->
        IF ~meta.JobExecutionTotal.nil THEN NewVec(meta.JobExecutionTotal.Labels) ELSE NilVec,
      jobExecutionLatencyMillis |->
        IF ~meta.JobExecutionLatencyMillis.nil THEN NewVec(meta.JobExecutionLatencyMillis.Labels) ELSE NilVec ]

CronJobMetricsMetas ==
    [ JobExecutionTotal : MetaOf(CronCounterLabels),
      JobExecutionLatencyMillis : MetaOf(CronLatencyLabels) ]

\* LogMetricsPre counting the call twice.
CronJobMetrics_LogMetricsPre_Twice(set, lv) ==
    LET m0 == Start(set)
    IN  IF ~m0.set.jobExecutionTotal.nil
        THEN Inc(Inc(Deref(m0, lv), "jobExecutionTotal", <<lv.JobName, Total>>),
                 "jobExecutionTotal", <<lv.JobName, Total>>)
        ELSE m0

CronJobMetrics_LogMetricsPre(set, lv) ==
    LET m0 == Start(set)
    IN  IF ~m0.set.jobExecutionTotal.nil
        THEN Inc(Deref(m0, lv), "jobExecutionTotal", <<lv.JobName, Total>>)
        ELSE m0

\* LogMetricsPost giving up the latency histogram once a job has failed.
CronJobMetrics_LogMetricsPost_Disabling(set, appErr, lv, opsExecTime) ==
    LET m0 == Start(set)
        m1 == IF ~m0.set.jobExecutionTotal.nil
              THEN IF ~appErr.nil
                   THEN Inc(Deref(m0, lv), "jobExecutionTotal", <<lv.JobName, Failure>>)
                   ELSE Inc(Deref(m0, lv), "jobExecutionTotal", <<lv.JobName, Success>>)
              ELSE m0
        m2 == IF ~m1.set.jobExecutionLatencyMillis.nil
              THEN Observe(Deref(m1, lv), "jobExecutionLatencyMillis", <<lv.JobName>>,
                           Float64(Milliseconds(Since(opsExecTime))))
              ELSE m1
    IN  IF ~appErr.nil THEN [m2 EXCEPT !.set.jobExecutionLatencyMillis = NilVec] ELSE m2

CronJobMetrics_LogMetricsPost(set, appErr, lv, opsExecTime) ==
    LET m0 == Start(set)
        m1 == IF ~m0.set.jobExecutionTotal.nil
              THEN IF ~appErr.nil
                   THEN Inc(Deref(m0, lv), "jobExecutionTotal", <<lv.JobName, Failure>>)
                   ELSE Inc(Deref(m0, lv), "jobExecutionTotal", <<lv.JobName, Success>>)
              ELSE m0
        m2 == IF ~m1.set.jobExecutionLatencyMillis.nil
              THEN Observe(Deref(m1, lv), "jobExecutionLatencyMillis", <<lv.JobName>>,
                           Float64(Milliseconds(Since(opsExecTime))))
              ELSE m1
    IN  m2

---------------------------------------------------------------------------
(* Go ints and strconv. *)

LimbBase == 2 ^ 16

RECURSIVE LimbsOf(_)
LimbsOf(n) ==
    IF n < LimbBase THEN <<n>>
    ELSE Append(LimbsOf(n \div LimbBase), n % LimbBase)

\* The Go int with value i, for an i the model checker's integers hold.
GoInt(i) == [neg |-> i < 0, limbs |-> LimbsOf(IF i < 0 THEN -i ELSE i)]

RECURSIVE StripZeros(_)
StripZeros(q) == IF Len(q) > 1 /\ Head(q) = 0 THEN StripZeros(Tail(q)) ELSE q

\* Long division of a limb sequence by ten: [q, r].
RECURSIVE DivTen(_, _, _)
DivTen(limbs, rem, acc) ==
    IF limbs = <<>> THEN [q |-> StripZeros(acc), r |-> rem]
    ELSE LET cur == rem * LimbBase + Head(limbs)
         IN  DivTen(Tail(limbs), cur % 10, Append(acc, cur \div 10))

\* limbs + 1.
RECURSIVE LimbsSucc(_)
LimbsSucc(limbs) ==
    IF limbs = <<>> THEN <<1>>
    ELSE IF limbs[Len(limbs)] + 1 < LimbBase
         THEN [limbs EXCEPT ![Len(limbs)] = @ + 1]
         ELSE Append(LimbsSucc(SubSeq(limbs, 1, Len(limbs) - 1)), 0)

Digits == <<"0", "1", "2", "3", "4", "5", "6", "7", "8", "9">>

RECURSIVE ItoaLimbs(_)
ItoaLimbs(limbs) ==
    LET d == DivTen(limbs, 0, <<>>)
    IN  IF d.q = <<0>> THEN <<Digits[d.r + 1]>>
        ELSE Append(ItoaLimbs(d.q), Digits[d.r + 1])

\* strconv.Itoa(i): the decimal string of i, as the sequence of its characters.
Itoa(i) == IF i.neg THEN <<"-">> \o ItoaLimbs(i.limbs) ELSE ItoaLimbs(i.limbs)

DigitValue(c) == (CHOOSE k \in 1..10 : Digits[k] = c) - 1

IsDigit(c) == \E k \in 1..10 : Digits[k] = c

RECURSIVE ParseNat(_)
ParseNat(s) ==
    IF s = <<>> THEN 0
    ELSE 10 * ParseNat(SubSeq(s, 1, Len(s) - 1)) + DigitValue(s[Len(s)])

RECURSIVE StripZeroDigits(_)
StripZeroDigits(s) ==
    IF Len(s) > 1 /\ Head(s) = "0" THEN StripZeroDigits(Tail(s)) ELSE s

\* a > b, for decimal strings without leading zeros.
RECURSIVE DecGreater(_, _)
DecGreater(a, b) ==
    IF Len(a) # Len(b) THEN Len(a) > Len(b)
    ELSE IF a = <<>> THEN FALSE
    ELSE IF Head(a) # Head(b) THEN DigitValue(Head(a)) > DigitValue(Head(b))
    ELSE DecGreater(Tail(a), Tail(b))

\* strconv.ParseInt(s, 10, bitSize): [val, err]; a syntax error gives 0, a
\* value out of the range of bitSize bits gives the nearest bound, both with
\* err set.
ParseInt(s, bitSize) ==
    LET neg    == s # <<>> /\ s[1] = "-"
        signed == s # <<>> /\ s[1] \in {"-", "+"}
        body   == IF signed THEN Tail(s) ELSE s
        maxv   == 2 * (2 ^ (bitSize - 2) - 1) + 1
        maxs   == ItoaLimbs(LimbsOf(maxv))
        mins   == ItoaLimbs(LimbsSucc(LimbsOf(maxv)))
    IN  IF body = <<>> \/ \E k \in 1..Len(body) : ~IsDigit(body[k])
        THEN [val |-> 0, err |-> TRUE]
        ELSE LET mag == StripZeroDigits(body)
             IN  IF ~neg
                 THEN IF DecGreater(mag, maxs) THEN [val |-> maxv, err |-> TRUE]
                      ELSE [val |-> ParseNat(mag), err |-> FALSE]
                 ELSE IF DecGreater(mag, mins) THEN [val |-> -maxv - 1, err |-> TRUE]
                      ELSE IF mag = mins THEN [val |-> -maxv - 1, err |-> FALSE]
                      ELSE [val |-> -ParseNat(mag), err |-> FALSE]

---------------------------------------------------------------------------
(* Downstream Service. *)

DSCounterLabels == <<"service", "method", "code", "api", "status">>
DSHistogramLabels == <<"service", "method", "code", "api">>

DownstreamServiceLabelValues ==
    { [Name |-> "payment-service", HTTPMethod |-> "POST", APIIdentifier |-> "/api/v1/payments"] }

HTTPMetricsValues ==
    { [nil |-> FALSE, Method |-> "POST", Code |-> GoInt(200), RequestBodySizeBytes |-> 1024,
       ResponseBodySizeBytes |-> 512, ResponseTime |-> 3],
      [nil |-> FALSE, Method |-> "POST", Code |-> GoInt(500), RequestBodySizeBytes |-> 0,
       ResponseBodySizeBytes |-> 0, ResponseTime |-> 0],
      [nil |-> FALSE, Method |-> "GET", Code |-> GoInt(404), RequestBodySizeBytes |-> 0,
       ResponseBodySizeBytes |-> 64, ResponseTime |-> 0 - 3] }

NewDownstreamServiceMetrics(meta) ==
    [ httpRequests |->
        IF ~meta.HTTPRequests.nil THEN NewVec(meta.HTTPRequests.Labels) ELSE NilVec,
      httpRequestsLatencyMillis |->
        IF ~meta.HTTPRequestsLatencyMillis.nil THEN NewVec(meta.HTTPRequestsLatencyMillis.Labels) ELSE NilVec,
      httpRequestSizeBytes |->
        IF ~meta.HTTPRequestSizeBytes.nil THEN NewVec(meta.HTTPRequestSizeBytes.Labels) ELSE NilVec,
      httpResponseSizeBytes |->
        IF ~meta.HTTPResponseSizeBytes.nil THEN NewVec(meta.HTTPResponseSizeBytes.Labels) ELSE NilVec ]

DownstreamServiceMetricsMetas ==
    [ HTTPRequests : MetaOf(DSCounterLabels),
      HTTPRequestsLatencyMillis : MetaOf(DSHistogramLabels),
      HTTPRequestSizeBytes : MetaOf(DSHistogramLabels),
      HTTPResponseSizeBytes : MetaOf(DSHistogramLabels) ]

\* LogMetricsPre passing the method before the service name.
DownstreamServiceMetrics_LogMetricsPre_Swapped(set, lv) ==
    LET m0 == Start(set)
    IN  IF ~m0.set.httpRequests.nil
        THEN Inc(Deref(m0, lv), "httpRequests", <<lv.HTTPMethod, lv.Name, <<>>, lv.APIIdentifier, Total>>)
        ELSE m0

DownstreamServiceMetrics_LogMetricsPre(set, lv) ==
    LET m0 == Start(set)
    IN  IF ~m0.set.httpRequests.nil
        THEN Inc(Deref(m0, lv), "httpRequests", <<lv.Name, lv.HTTPMethod, <<>>, lv.APIIdentifier, Total>>)
        ELSE m0

\* LogMetricsPost reading the response code only where a sub-metric needs it.
DownstreamServiceMetrics_LogMetricsPost_Lazy(set, success, lv, httpMetrics) ==
    LET m0 == Start(set)
        m1 == IF ~m0.set.httpRequests.nil
              THEN Inc(Deref(Deref(m0, httpMetrics), lv), "httpRequests",
                       <<lv.Name, httpMetrics.Method, Itoa(httpMetrics.Code), lv.APIIdentifier,
                         IF success THEN Success ELSE Failure>>)
              ELSE m0
        m2 == IF ~m1.set.httpRequestsLatencyMillis.nil
              THEN Observe(Deref(Deref(m1, httpMetrics), lv), "httpRequestsLatencyMillis",
                           <<lv.Name, httpMetrics.Method, Itoa(httpMetrics.Code),
                             lv.APIIdentifier>>,
                           Float64(Milliseconds(httpMetrics.ResponseTime)))
              ELSE m1
        m3 == IF ~m2.set.httpRequestSizeBytes.nil
              THEN Observe(Deref(Deref(m2, httpMetrics), lv), "httpRequestSizeBytes",
                           <<lv.Name, httpMetrics.Method, Itoa(httpMetrics.Code),
                             lv.APIIdentifier>>,
                           Float64(httpMetrics.RequestBodySizeBytes))
              ELSE m2
        m4 == IF ~m3.set.httpResponseSizeBytes.nil
              THEN Observe(Deref(Deref(m3, httpMetrics), lv), "httpResponseSizeBytes",
                           <<lv.Name, httpMetrics.Method, Itoa(httpMetrics.Code),
                             lv.APIIdentifier>>,
                           Float64(httpMetrics.ResponseBodySizeBytes))
              ELSE m3
    IN  m4

\* LogMetricsPost returning at once when the counter is disabled.
DownstreamServiceMetrics_LogMetricsPost_CounterFirst(set, success, lv, httpMetrics) ==
    IF httpMetrics.nil THEN [set |-> set, panic |-> TRUE]
    ELSE IF set.httpRequests.nil THEN Start(set)
    ELSE
    LET httpCodeStr == Itoa(httpMetrics.Code)
        m0 == Start(set)
        m1 == IF success
              THEN Inc(Deref(m0, lv), "httpRequests", <<lv.Name, httpMetrics.Method, httpCodeStr, lv.APIIdentifier, Success>>)
              ELSE Inc(Deref(m0, lv), "httpRequests", <<lv.Name, httpMetrics.Method, httpCodeStr, lv.APIIdentifier, Failure>>)
        m2 == IF ~m1.set.httpRequestsLatencyMillis.nil
              THEN Observe(Deref(m1, lv), "httpRequestsLatencyMillis",
                           <<lv.Name, httpMetrics.Method, httpCodeStr, lv.APIIdentifier>>,
                           Float64(Milliseconds(httpMetrics.ResponseTime)))
              ELSE m1
        m3 == IF ~m2.set.httpRequestSizeBytes.nil
              THEN Observe(Deref(m2, lv), "httpRequestSizeBytes",
                           <<lv.Name, httpMetrics.Method, httpCodeStr, lv.APIIdentifier>>,
                           Float64(httpMetrics.RequestBodySizeBytes))
              ELSE m2
        m4 == IF ~m3.set.httpResponseSizeBytes.nil
              THEN Observe(Deref(m3, lv), "httpResponseSizeBytes",
                           <<lv.Name, httpMetrics.Method, httpCodeStr, lv.APIIdentifier>>,
                           Float64(httpMetrics.ResponseBodySizeBytes))
              ELSE m3
    IN  m4

DownstreamServiceMetrics_LogMetricsPost(set, success, lv, httpMetrics) ==
    IF httpMetrics.nil THEN [set |-> set, panic |-> TRUE]
    ELSE
    LET httpCodeStr == Itoa(httpMetrics.Code)
        m0 == Start(set)
        m1 == IF ~m0.set.httpRequests.nil
              THEN IF success
                   THEN Inc(Deref(m0, lv), "httpRequests", <<lv.Name, httpMetrics.Method, httpCodeStr, lv.APIIdentifier, Success>>)
                   ELSE Inc(Deref(m0, lv), "httpRequests", <<lv.Name, httpMetrics.Method, httpCodeStr, lv.APIIdentifier, Failure>>)
              ELSE m0
        m2 == IF ~m1.set.httpRequestsLatencyMillis.nil
              THEN Observe(Deref(m1, lv), "httpRequestsLatencyMillis",
                           <<lv.Name, httpMetrics.Method, httpCodeStr, lv.APIIdentifier>>,
                           Float64(Milliseconds(httpMetrics.ResponseTime)))
              ELSE m1
        m3 == IF ~m2.set.httpRequestSizeBytes.nil
              THEN Observe(Deref(m2, lv), "httpRequestSizeBytes",
                           <<lv.Name, httpMetrics.Method, httpCodeStr, lv.APIIdentifier>>,
                           Float64(httpMetrics.RequestBodySizeBytes))
              ELSE m2
        m4 == IF ~m3.set.httpResponseSizeBytes.nil
              THEN Observe(Deref(m3, lv), "httpResponseSizeBytes",
                           <<lv.Name, httpMetrics.Method, httpCodeStr, lv.APIIdentifier>>,
                           Float64(httpMetrics.ResponseBodySizeBytes))
              ELSE m3
    IN  m4

---------------------------------------------------------------------------
(* Pub/Sub. *)

PSConsumedLabels == <<"source", "entity", "op_type", "status", "error_code">>
PSPublishedLabels == <<"entity", "op_type", "status">>
PSHistogramLabels == <<"entity", "op_type">>

PSErrorCodes == {"", "ERR_PROCESSING"}

PSLabelValues ==
    [ Source : {"orders-subscription"}, Entity : {"order"}, EntityOpType : {"create"},
      ErrorCode : PSErrorCodes ]

\* *pubsub.EventTxnData: nil, or the data of a publish.
EventTxnDataValues ==
    { Nil,
      [nil |-> FALSE, IsPublished |-> TRUE, TimeTakenToPublish |-> 3,
       MessageSizeInBytes |-> 2048],
      [nil |-> FALSE, IsPublished |-> FALSE, TimeTakenToPublish |-> 0,
       MessageSizeInBytes |-> 2048] }

NewPubSubMetrics(meta) ==
    [ totalMessagesConsumed |->
        IF ~meta.TotalMessagesConsumed.nil THEN NewVec(meta.TotalMessagesConsumed.Labels) ELSE NilVec,
      totalMessagesPublished |->
        IF ~meta.TotalMessagesPublished.nil THEN NewVec(meta.TotalMessagesPublished.Labels) ELSE NilVec,
      messagesPublishedLatencyMillis |->
        IF ~meta.MessagesPublishedLatencyMillis.nil THEN NewVec(meta.MessagesPublishedLatencyMillis.Labels) ELSE NilVec,
      messagesPublishedSizeBytes |->
        IF ~meta.MessagesPublishedSizeBytes.nil THEN NewVec(meta.MessagesPublishedSizeBytes.Labels) ELSE NilVec ]

PSMetricsMetas ==
    [ TotalMessagesConsumed : MetaOf(PSConsumedLabels),
      TotalMessagesPublished : MetaOf(PSPublishedLabels),
      MessagesPublishedLatencyMillis : MetaOf(PSHistogramLabels),
      MessagesPublishedSizeBytes : MetaOf(PSHistogramLabels) ]

\* LogMetricsPre passing the caller's error code to the consumed "total" series.
PSMetrics_LogMetricsPre_WithErrorCode(set, lv) ==
    LET m0 == Start(set)
        m1 == IF ~m0.set.totalMessagesPublished.nil
              THEN Inc(Deref(m0, lv), "totalMessagesPublished", <<lv.Entity, lv.EntityOpType, Total>>)
              ELSE m0
        m2 == IF ~m1.set.totalMessagesConsumed.nil
              THEN Inc(Deref(m1, lv), "totalMessagesConsumed",
                       <<lv.Source, lv.Entity, lv.EntityOpType, Total, lv.ErrorCode>>)
              ELSE m1
    IN  m2

PSMetrics_LogMetricsPre(set, lv) ==
    LET m0 == Start(set)
        m1 == IF ~m0.set.totalMessagesPublished.nil
              THEN Inc(Deref(m0, lv), "totalMessagesPublished", <<lv.Entity, lv.EntityOpType, Total>>)
              ELSE m0
        m2 == IF ~m1.set.totalMessagesConsumed.nil
              THEN Inc(Deref(m1, lv), "totalMessagesConsumed", <<lv.Source, lv.Entity, lv.EntityOpType, Total, "">>)
              ELSE m1
    IN  m2

\* LogMetricsPost counting absent transaction data as a failed publish.
PSMetrics_LogMetricsPost_NilAsFailure(set, lv, eventTxnData) ==
    LET m0 == Start(set)
        m1 == IF ~m0.set.totalMessagesPublished.nil
              THEN IF ~eventTxnData.nil /\ eventTxnData.IsPublished
                   THEN Inc(Deref(m0, lv), "totalMessagesPublished", <<lv.Entity, lv.EntityOpType, Success>>)
                   ELSE Inc(Deref(m0, lv), "totalMessagesPublished", <<lv.Entity, lv.EntityOpType, Failure>>)
              ELSE m0
        m2 == IF ~m1.set.messagesPublishedLatencyMillis.nil /\ ~eventTxnData.nil
              THEN Observe(Deref(m1, lv), "messagesPublishedLatencyMillis", <<lv.Entity, lv.EntityOpType>>,
                           Float64(Milliseconds(eventTxnData.TimeTakenToPublish)))
              ELSE m1
        m3 == IF ~m2.set.messagesPublishedSizeBytes.nil /\ ~eventTxnData.nil
              THEN Observe(Deref(m2, lv), "messagesPublishedSizeBytes", <<lv.Entity, lv.EntityOpType>>,
                           Float64(eventTxnData.MessageSizeInBytes))
              ELSE m2
        m4 == IF ~m3.set.totalMessagesConsumed.nil
              THEN IF lv # Nil /\ lv.ErrorCode # ""
                   THEN Inc(Deref(m3, lv), "totalMessagesConsumed", <<lv.Source, lv.Entity, lv.EntityOpType, Failure, lv.ErrorCode>>)
                   ELSE Inc(Deref(m3, lv), "totalMessagesConsumed", <<lv.Source, lv.Entity, lv.EntityOpType, Success, lv.ErrorCode>>)
              ELSE m3
    IN  m4

PSMetrics_LogMetricsPost(set, lv, eventTxnData) ==
    LET m0 == Start(set)
        m1 == IF ~m0.set.totalMessagesPublished.nil /\ ~eventTxnData.nil
              THEN IF eventTxnData.IsPublished
                   THEN Inc(Deref(m0, lv), "totalMessagesPublished", <<lv.Entity, lv.EntityOpType, Success>>)
                   ELSE Inc(Deref(m0, lv), "totalMessagesPublished", <<lv.Entity, lv.EntityOpType, Failure>>)
              ELSE m0
        m2 == IF ~m1.set.messagesPublishedLatencyMillis.nil /\ ~eventTxnData.nil
              THEN Observe(Deref(m1, lv), "messagesPublishedLatencyMillis", <<lv.Entity, lv.EntityOpType>>,
                           Float64(Milliseconds(eventTxnData.TimeTakenToPublish)))
              ELSE m1
        m3 == IF ~m2.set.messagesPublishedSizeBytes.nil /\ ~eventTxnData.nil
              THEN Observe(Deref(m2, lv), "messagesPublishedSizeBytes", <<lv.Entity, lv.EntityOpType>>,
                           Float64(eventTxnData.MessageSizeInBytes))
              ELSE m2
        m4 == IF ~m3.set.totalMessagesConsumed.nil
              THEN IF lv # Nil /\ lv.ErrorCode # ""
                   THEN Inc(Deref(m3, lv), "totalMessagesConsumed", <<lv.Source, lv.Entity, lv.EntityOpType, Failure, lv.ErrorCode>>)
                   ELSE Inc(Deref(m3, lv), "totalMessagesConsumed", <<lv.Source, lv.Entity, lv.EntityOpType, Success, lv.ErrorCode>>)
              ELSE m3
    IN  m4

PromPSMetrics_LogMetricsPre(set, lv) ==
    LET m0 == Start(set)
        m1 == IF ~m0.set.totalMessagesPublished.nil
              THEN Inc(Deref(m0, lv), "totalMessagesPublished", <<lv.Entity, lv.EntityOpType, Total>>)
              ELSE m0
        m2 == IF ~m1.set.totalMessagesConsumed.nil
              THEN Inc(Deref(m1, lv), "totalMessagesConsumed", <<lv.Source, lv.Entity, lv.EntityOpType, Total, "">>)
              ELSE m1
    IN  m2

\* LogMetricsPost counting a consumption only when no transaction data came.
PromPSMetrics_LogMetricsPost_ConsumedWithoutTxn(set, lv, eventTxnData) ==
    LET m0 == Start(set)
        m1 == IF ~m0.set.totalMessagesPublished.nil /\ ~eventTxnData.nil
              THEN IF eventTxnData.IsPublished
                   THEN Inc(Deref(m0, lv), "totalMessagesPublished", <<lv.Entity, lv.EntityOpType, Success>>)
                   ELSE Inc(Deref(m0, lv), "totalMessagesPublished", <<lv.Entity, lv.EntityOpType, Failure>>)
              ELSE m0
        m2 == IF ~m1.set.messagesPublishedLatencyMillis.nil /\ ~eventTxnData.nil
              THEN Observe(Deref(m1, lv), "messagesPublishedLatencyMillis", <<lv.Entity, lv.EntityOpType>>,
                           Float64(Milliseconds(eventTxnData.TimeTakenToPublish)))
              ELSE m1
        m3 == IF ~m2.set.messagesPublishedSizeBytes.nil /\ ~eventTxnData.nil
              THEN Observe(Deref(m2, lv), "messagesPublishedSizeBytes", <<lv.Entity, lv.EntityOpType>>,
                           Float64(eventTxnData.MessageSizeInBytes))
              ELSE m2
        m4 == IF ~m3.set.totalMessagesConsumed.nil /\ eventTxnData.nil
              THEN IF lv # Nil /\ lv.ErrorCode # ""
                   THEN Inc(Deref(m3, lv), "totalMessagesConsumed", <<lv.Source, lv.Entity, lv.EntityOpType, Failure, lv.ErrorCode>>)
                   ELSE Inc(Deref(m3, lv), "totalMessagesConsumed", <<lv.Source, lv.Entity, lv.EntityOpType, Success, lv.ErrorCode>>)
              ELSE m3
    IN  m4

PromPSMetrics_LogMetricsPost(set, lv, eventTxnData) ==
    LET m0 == Start(set)
        m1 == IF ~m0.set.totalMessagesPublished.nil /\ ~eventTxnData.nil
              THEN IF eventTxnData.IsPublished
                   THEN Inc(Deref(m0, lv), "totalMessagesPublished", <<lv.Entity, lv.EntityOpType, Success>>)
                   ELSE Inc(Deref(m0, lv), "totalMessagesPublished", <<lv.Entity, lv.EntityOpType, Failure>>)
              ELSE m0
        m2 == IF ~m1.set.messagesPublishedLatencyMillis.nil /\ ~eventTxnData.nil
              THEN Observe(Deref(m1, lv), "messagesPublishedLatencyMillis", <<lv.Entity, lv.EntityOpType>>,
                           Float64(Milliseconds(eventTxnData.TimeTakenToPublish)))
              ELSE m1
        m3 == IF ~m2.set.messagesPublishedSizeBytes.nil /\ ~eventTxnData.nil
              THEN Observe(Deref(m2, lv), "messagesPublishedSizeBytes", <<lv.Entity, lv.EntityOpType>>,
                           Float64(eventTxnData.MessageSizeInBytes))
              ELSE m2
        m4 == IF ~m3.set.totalMessagesConsumed.nil
              THEN IF lv # Nil /\ lv.ErrorCode # ""
                   THEN Inc(Deref(m3, lv), "totalMessagesConsumed", <<lv.Source, lv.Entity, lv.EntityOpType, Failure, lv.ErrorCode>>)
                   ELSE Inc(Deref(m3, lv), "totalMessagesConsumed", <<lv.Source, lv.Entity, lv.EntityOpType, Success, lv.ErrorCode>>)
              ELSE m3
    IN  m4

---------------------------------------------------------------------------
(* Application Error. *)

AppGaugeLabels == <<"error_code">>

AppErrorCodes == {"ERR_DB_CONNECTION", "ERR_VALIDATION"}

\* The errCodes slices passed to LogMetrics: every list of at most two codes.
ErrCodeLists ==
    {<<>>} \cup {<<c>> : c \in AppErrorCodes}
           \cup {<<c, d>> : c \in AppErrorCodes, d \in AppErrorCodes}

NilGaugeVec == [nil |-> TRUE, labels |-> <<>>, vals |-> [t \in {} |-> 0]]

\* prometheus.NewGaugeVec with the given label names.
NewGaugeVec(labelNames) == [nil |-> FALSE, labels |-> labelNames, vals |-> [t \in {} |-> 0]]

\* The value of a gauge child (0 for a child never touched).
GaugeValue(vec, lvs) == IF lvs \in DOMAIN vec.vals THEN vec.vals[lvs] ELSE 0

\* A gauge child that stops at zero instead of going below it.
GaugeAdd_Floored(m, field, lvs, d) ==
    IF m.panic THEN m
    ELSE IF m.set[field].nil \/ Len(lvs) # Len(m.set[field].labels)
         THEN [m EXCEPT !.panic = TRUE]
         ELSE [m EXCEPT !.set[field].vals =
                   (lvs :> (IF GaugeValue(m.set[field], lvs) + d < 0 THEN 0
                            ELSE GaugeValue(m.set[field], lvs) + d)) @@ @]

\* vec.WithLabelValues(lvs...).Inc() / .Dec() (d = 1 / d = -1): panics on a nil
\* vec and on a label cardinality mismatch.
GaugeAdd(m, field, lvs, d) ==
    IF m.panic THEN m
    ELSE IF m.set[field].nil \/ Len(lvs) # Len(m.set[field].labels)
         THEN [m EXCEPT !.panic = TRUE]
         ELSE [m EXCEPT !.set[field].vals =
                   (lvs :> (GaugeValue(m.set[field], lvs) + d)) @@ @]

AppMetricsMetas == [ ApplicationErrorsCounter : MetaOf(AppGaugeLabels) ]

NewAppMetrics(meta) ==
    [ applicationErrorsCounter |->
        IF ~meta.ApplicationErrorsCounter.nil
        THEN NewGaugeVec(meta.ApplicationErrorsCounter.Labels) ELSE NilGaugeVec ]

\* The loop leaving after its first iteration.
IncEach_Once(m, errCodes) ==
    IF errCodes = <<>> THEN m
    ELSE GaugeAdd(m, "applicationErrorsCounter", <<Head(errCodes)>>, 1)

\* for _, errCode := range errCodes { gauge.WithLabelValues(errCode).Inc() }
RECURSIVE IncEach(_, _)
IncEach(m, errCodes) ==
    IF errCodes = <<>> THEN m
    ELSE IncEach(GaugeAdd(m, "applicationErrorsCounter", <<Head(errCodes)>>, 1), Tail(errCodes))

AppMetrics_LogMetrics(set, errCodes) ==
    LET m0 == Start(set)
    IN  IF ~m0.set.applicationErrorsCounter.nil THEN IncEach(m0, errCodes) ELSE m0

\* DecrementAppErrorCount with the presence check LogMetrics has.
AppMetrics_DecrementAppErrorCount_Guarded(set, errCode) ==
    LET m0 == Start(set)
    IN  IF ~m0.set.applicationErrorsCounter.nil
        THEN GaugeAdd(m0, "applicationErrorsCounter", <<errCode>>, -1)
        ELSE m0

AppMetrics_DecrementAppErrorCount(set, errCode) ==
    GaugeAdd(Start(set), "applicationErrorsCounter", <<errCode>>, -1)

PromAppMetrics_LogMetrics(set, errCodes) ==
    LET m0 == Start(set)
    IN  IF ~m0.set.applicationErrorsCounter.nil THEN IncEach(m0, errCodes) ELSE m0

PromAppMetrics_DecrementAppErrorCount(set, errCode) ==
    GaugeAdd(Start(set), "applicationErrorsCounter", <<errCode>>, -1)

\* NoOpPromAppMetrics is an empty struct: its methods touch nothing.
NoOpPromAppMetrics_LogMetrics(set, errCodes) == Start(set)

NoOpPromAppMetrics_DecrementAppErrorCount(set, errCode) == Start(set)

---------------------------------------------------------------------------
(* Router. *)

RouterCounterLabels == <<"method", "code", "path", "status">>
RouterHistogramLabels == <<"method", "code", "path">>

\* The metricsPath argument of LogMetrics.
MetricsPath == "/metrics"

\* An http.Header: a map from names to lists of values.
NoHeader == [n \in {} |-> <<>>]

\* Inbound requests, each with the route pattern gin matched (FullPath).
Requests ==
    { [URL |-> [nil |-> FALSE, Path |-> "/metrics"], FullPath |-> "/metrics",
       Method |-> "GET", Proto |-> "HTTP/1.1", Header |-> NoHeader,
       Host |-> "localhost", ContentLength |-> 0],
      [URL |-> [nil |-> FALSE, Path |-> "/users/1"], FullPath |-> "/users/:id",
       Method |-> "GET", Proto |-> "HTTP/1.1",
       Header |-> ("Accept" :> <<"text/html", "*/*">>),
       Host |-> "localhost", ContentLength |-> -1],
      [URL |-> [nil |-> FALSE, Path |-> "/orders"], FullPath |-> "/orders",
       Method |-> "POST", Proto |-> "HTTP/2.0",
       Header |-> ("Content-Type" :> <<"application/json">>),
       Host |-> "api.local", ContentLength |-> 12] }

\* 2^32 + 200, a status outside the 32-bit range.
WideStatus == [neg |-> FALSE, limbs |-> <<1, 0, 200>>]

\* What a downstream handler does: the status it leaves in the response
\* writer (the edges of the 2XX range, and a value that does not fit 32
\* bits), the bytes it wrote (gin's Size() is -1 when nothing was written),
\* and whether it added a header to the request.
HandlerOutcomes ==
    { [status |-> GoInt(199), size |-> 0 - 1, mutate |-> FALSE],
      [status |-> GoInt(200), size |-> 512, mutate |-> FALSE],
      [status |-> GoInt(299), size |-> 512, mutate |-> TRUE],
      [status |-> GoInt(300), size |-> 0, mutate |-> TRUE],
      [status |-> GoInt(500), size |-> 512, mutate |-> FALSE],
      [status |-> WideStatus, size |-> 0 - 1, mutate |-> FALSE] }

NewRouterLevelMetrics(meta) ==
    [ httpRequests |->
        IF ~meta.HTTPRequests.nil THEN NewVec(meta.HTTPRequests.Labels) ELSE NilVec,
      httpRequestsLatencyMillis |->
        IF ~meta.HTTPRequestsLatencyMillis.nil THEN NewVec(meta.HTTPRequestsLatencyMillis.Labels) ELSE NilVec,
      httpRequestSizeBytes |->
        IF ~meta.HTTPRequestSizeBytes.nil THEN NewVec(meta.HTTPRequestSizeBytes.Labels) ELSE NilVec,
      httpResponseSizeBytes |->
        IF ~meta.HTTPResponseSizeBytes.nil THEN NewVec(meta.HTTPResponseSizeBytes.Labels) ELSE NilVec ]

RouterMetricsMetas ==
    [ HTTPRequests : MetaOf(RouterCounterLabels),
      HTTPRequestsLatencyMillis : MetaOf(RouterHistogramLabels),
      HTTPRequestSizeBytes : MetaOf(RouterHistogramLabels),
      HTTPResponseSizeBytes : MetaOf(RouterHistogramLabels) ]

RECURSIVE SumLen(_)
SumLen(values) == IF values = <<>> THEN 0 ELSE Len(Head(values)) + SumLen(Tail(values))

RECURSIVE HeaderSize(_, _)
HeaderSize(header, names) ==
    IF names = {} THEN 0
    ELSE LET name == CHOOSE n \in names : TRUE
         IN  Len(name) + SumLen(header[name]) + HeaderSize(header, names \ {name})

\* The size with the content length added whether or not it is known.
computeApproximateRequestSize_Unguarded(r) ==
    LET s0 == IF ~r.URL.nil THEN Len(r.URL.Path) ELSE 0
        s1 == s0 + Len(r.Method) + Len(r.Proto)
        s2 == s1 + HeaderSize(r.Header, DOMAIN r.Header)
        s3 == s2 + Len(r.Host)
    IN  s3 + r.ContentLength

computeApproximateRequestSize(r) ==
    LET s0 == IF ~r.URL.nil THEN Len(r.URL.Path) ELSE 0
        s1 == s0 + Len(r.Method) + Len(r.Proto)
        s2 == s1 + HeaderSize(r.Header, DOMAIN r.Header)
        s3 == s2 + Len(r.Host)
    IN  IF r.ContentLength # -1 THEN s3 + r.ContentLength ELSE s3

\* The classification with the upper bound of the 2xx range excluded.
RouterOutcome_ExclusiveMax(httpCodeInt) ==
    IF httpCodeInt >= HTTPStatus2XXMinValue /\ httpCodeInt < HTTPStatus2XXMaxValue
    THEN Success ELSE Failure

\* Success or Failure from the parsed status code.
RouterOutcome(httpCodeInt) ==
    IF httpCodeInt >= HTTPStatus2XXMinValue /\ httpCodeInt <= HTTPStatus2XXMaxValue
    THEN Success ELSE Failure

\* The middleware's first part counting the request before the metrics-path test.
RouterMetrics_LogMetrics_Before_CountFirst(set, c, metricsPath) ==
    IF c.Request.URL.nil
    THEN [m |-> [set |-> set, panic |-> TRUE], skip |-> FALSE, start |-> 0,
          reqSize |-> 0, urlPath |-> ""]
    ELSE
    LET start   == now
        reqSize == Float64(computeApproximateRequestSize(c.Request))
        urlPath == c.FullPath
        m0 == Start(set)
        m1 == IF ~m0.set.httpRequests.nil
              THEN Inc(m0, "httpRequests", <<c.Request.Method, <<>>, urlPath, Total>>)
              ELSE m0
    IN  IF c.Request.URL.Path = metricsPath
        THEN [m |-> m1, skip |-> TRUE, start |-> 0, reqSize |-> 0, urlPath |-> ""]
        ELSE [m |-> m1, skip |-> FALSE, start |-> start, reqSize |-> reqSize,
              urlPath |-> urlPath]

\* The middleware up to its call of gc.Next(): [m, skip, start, reqSize, urlPath].
RouterMetrics_LogMetrics_Before(set, c, metricsPath) ==
    IF c.Request.URL.nil
    THEN [m |-> [set |-> set, panic |-> TRUE], skip |-> FALSE, start |-> 0,
          reqSize |-> 0, urlPath |-> ""]
    ELSE IF c.Request.URL.Path = metricsPath
    THEN [m |-> Start(set), skip |-> TRUE, start |-> 0, reqSize |-> 0, urlPath |-> ""]
    ELSE
    LET start   == now
        reqSize == Float64(computeApproximateRequestSize(c.Request))
        urlPath == c.FullPath
        m0 == Start(set)
        m1 == IF ~m0.set.httpRequests.nil
              THEN Inc(m0, "httpRequests", <<c.Request.Method, <<>>, urlPath, Total>>)
              ELSE m0
    IN  [m |-> m1, skip |-> FALSE, start |-> start, reqSize |-> reqSize, urlPath |-> urlPath]

\* The middleware's second part measuring the request after the handler ran.
RouterMetrics_LogMetrics_After_LateSize(set, c, skip, start, reqSize, urlPath) ==
    IF skip THEN Start(set)
    ELSE
    LET httpCode == Itoa(c.status)
        elapsed  == Since(start)
        respSize == Float64(c.size)
        lateSize == Float64(computeApproximateRequestSize(c.Request))
        parsed   == ParseInt(httpCode, 32)
        httpCodeInt == IF parsed.err THEN 0 ELSE parsed.val
        m0 == Start(set)
        m1 == IF ~m0.set.httpRequests.nil
              THEN Inc(m0, "httpRequests",
                       <<c.Request.Method, httpCode, urlPath, RouterOutcome(httpCodeInt)>>)
              ELSE m0
        m2 == IF ~m1.set.httpRequestsLatencyMillis.nil
              THEN Observe(m1, "httpRequestsLatencyMillis",
                           <<c.Request.Method, httpCode, urlPath>>, elapsed)
              ELSE m1
        m3 == IF ~m2.set.httpRequestSizeBytes.nil
              THEN Observe(m2, "httpRequestSizeBytes",
                           <<c.Request.Method, httpCode, urlPath>>, lateSize)
              ELSE m2
        m4 == IF ~m3.set.httpResponseSizeBytes.nil
              THEN Observe(m3, "httpResponseSizeBytes",
                           <<c.Request.Method, httpCode, urlPath>>, respSize)
              ELSE m3
    IN  m4

\* The middleware after gc.Next() returned, with the locals it set before.
RouterMetrics_LogMetrics_After(set, c, skip, start, reqSize, urlPath) ==
    IF skip THEN Start(set)
    ELSE
    LET httpCode == Itoa(c.status)
        elapsed  == Since(start)
        respSize == Float64(c.size)
        parsed   == ParseInt(httpCode, 32)
        httpCodeInt == IF parsed.err THEN 0 ELSE parsed.val
        m0 == Start(set)
        m1 == IF ~m0.set.httpRequests.nil
              THEN Inc(m0, "httpRequests",
                       <<c.Request.Method, httpCode, urlPath, RouterOutcome(httpCodeInt)>>)
              ELSE m0
        m2 == IF ~m1.set.httpRequestsLatencyMillis.nil
              THEN Observe(m1, "httpRequestsLatencyMillis",
                           <<c.Request.Method, httpCode, urlPath>>, elapsed)
              ELSE m1
        m3 == IF ~m2.set.httpRequestSizeBytes.nil
              THEN Observe(m2, "httpRequestSizeBytes",
                           <<c.Request.Method, httpCode, urlPath>>, reqSize)
              ELSE m2
        m4 == IF ~m3.set.httpResponseSizeBytes.nil
              THEN Observe(m3, "httpResponseSizeBytes",
                           <<c.Request.Method, httpCode, urlPath>>, respSize)
              ELSE m3
    IN  m4

---------------------------------------------------------------------------
(* The registry adapter of the prometheus subpackage.  The state of the    *)
(* process-wide registerer and of the logger is r = [registry, logged,      *)
(* exposed]; a metric is known to the registerer by its fully-qualified     *)
(* name.  exposed.collectors are the collector objects the registerer       *)
(* holds, which a scrape reads; exposed.held are the names whose collector  *)
(* is the very object the process got as its latest handle of that name,    *)
(* and exposed.rejected the names a registration was refused under.  Help   *)
(* texts and bucket boundaries play no part in what follows and are left    *)
(* out of the parameters.                                                   *)

Namespace == "myapp"

\* prometheus.BuildFQName(namespace, "", name).
FQName(namespace, name) == <<namespace, name>>

NothingExposed == [collectors |-> <<>>, held |-> {}, rejected |-> {}]

EmptyRegistry == [registry |-> {}, logged |-> 0, exposed |-> NothingExposed]

\* prometheus.Register(c): an error when the name of c is already taken;
\* otherwise the registerer holds c from now on.
Register(r, fq, c) ==
    IF fq \in r.registry
    THEN [r |-> [r EXCEPT !.exposed.rejected = @ \cup {fq}], err |-> TRUE]
    ELSE [r |-> [r EXCEPT !.registry = @ \cup {fq},
                          !.exposed.collectors = (fq :> c) @@ @],
          err |-> FALSE]

\* The adapter returned the object it built, under the name fq: it is the
\* registered collector when the registration succeeded and another object
\* when it failed.
Returned(reg, fq) ==
    IF reg.err
    THEN [reg.r EXCEPT !.logged = @ + 1, !.exposed.held = @ \ {fq}]
    ELSE [reg.r EXCEPT !.exposed.held = @ \cup {fq}]

\* The adapter handing out the collector already registered under the name
\* when the registration fails.
GetPromCounterVec_Existing(r, namespace, name, labelNames) ==
    LET counter == NewVec(labelNames)
        reg == Register(r, FQName(namespace, name), counter)
    IN  IF reg.err
        THEN [vec |-> r.exposed.collectors[FQName(namespace, name)],
              r |-> [reg.r EXCEPT !.logged = @ + 1]]
        ELSE [vec |-> counter, r |-> Returned(reg, FQName(namespace, name))]

\* The adapter handing out no handle when the registration fails.
GetPromCounterVec_NilOnFailure(r, namespace, name, labelNames) ==
    LET counter == NewVec(labelNames)
        reg == Register(r, FQName(namespace, name), counter)
    IN  IF reg.err THEN [vec |-> NilVec, r |-> Returned(reg, FQName(namespace, name))]
        ELSE [vec |-> counter, r |-> Returned(reg, FQName(namespace, name))]

\* The adapters: build the vector, register it, on an error write it to
\* l.Logger.Error and go on; the handle is returned in both cases.
GetPromCounterVec(r, namespace, name, labelNames) ==
    LET counter == NewVec(labelNames)
        reg == Register(r, FQName(namespace, name), counter)
    IN  [vec |-> counter, r |-> Returned(reg, FQName(namespace, name))]

GetPromHistogramVec(r, namespace, name, labelNames) ==
    LET histogram == NewVec(labelNames)
        reg == Register(r, FQName(namespace, name), histogram)
    IN  [vec |-> histogram, r |-> Returned(reg, FQName(namespace, name))]

GetPromSummaryVec(r, namespace, name, labelNames) ==
    LET summary == NewVec(labelNames)
        reg == Register(r, FQName(namespace, name), summary)
    IN  [vec |-> summary, r |-> Returned(reg, FQName(namespace, name))]

GetPromGaugeVec(r, namespace, name, labelNames) ==
    LET gauge == NewGaugeVec(labelNames)
        reg == Register(r, FQName(namespace, name), gauge)
    IN  [vec |-> gauge, r |-> Returned(reg, FQName(namespace, name))]

\* The names under which the sub-metrics of each domain are registered.
MetricNames ==
    [ Database |->
        [ operationsTotal |-> "db_operations",
          operationsLatencyMillis |-> "db_operations_latency_millis" ],
      CronJob |->
        [ jobExecutionTotal |-> "cron_job_execution_count",
          jobExecutionLatencyMillis |-> "cron_job_execution_latency_millis" ],
      Downstream |->
        [ httpRequests |-> "downstream_service_http_requests",
          httpRequestsLatencyMillis |-> "downstream_service_http_request_latency_millis",
          httpRequestSizeBytes |-> "downstream_service_http_request_size_bytes",
          httpResponseSizeBytes |-> "downstream_service_http_response_size_bytes" ],
      PubSub |->
        [ totalMessagesConsumed |-> "pubsub_messages_consumed",
          totalMessagesPublished |-> "pubsub_messages_published",
          messagesPublishedLatencyMillis |-> "pubsub_messages_published_latency_millis",
          messagesPublishedSizeBytes |-> "pubsub_messages_published_size_bytes" ],
      Router |->
        [ httpRequests |-> "http_requests",
          httpRequestsLatencyMillis |-> "http_request_latency_millis",
          httpRequestSizeBytes |-> "http_request_size_bytes",
          httpResponseSizeBytes |-> "http_response_size_bytes" ],
      App |-> [ applicationErrorsCounter |-> "application_errors_total" ] ]

\* if meta.X != nil { x = Get...(meta.Namespace, name, ..., meta.X.Labels) }
IfConfigured(r, metricMeta, adapter, name, nilVec) ==
    IF ~metricMeta.nil
    THEN CASE adapter = "GetPromCounterVec" ->
                  GetPromCounterVec(r, Namespace, name, metricMeta.Labels)
           [] adapter = "GetPromHistogramVec" ->
                  GetPromHistogramVec(r, Namespace, name, metricMeta.Labels)
           [] adapter = "GetPromGaugeVec" ->
                  GetPromGaugeVec(r, Namespace, name, metricMeta.Labels)
    ELSE [vec |-> nilVec, r |-> r]

\* The constructors of the prometheus subpackage run against the registerer
\* in state r: [set, r].
NewPromDatabaseMetrics(r, meta) ==
    LET a == IfConfigured(r, meta.OperationsTotal, "GetPromCounterVec",
                          MetricNames.Database.operationsTotal, NilVec)
        b == IfConfigured(a.r, meta.OperationsLatencyMillis, "GetPromHistogramVec",
                          MetricNames.Database.operationsLatencyMillis, NilVec)
    IN  [set |-> [operationsTotal |-> a.vec, operationsLatencyMillis |-> b.vec], r |-> b.r]

NewPromCronJobMetrics(r, meta) ==
    LET a == IfConfigured(r, meta.JobExecutionTotal, "GetPromCounterVec",
                          MetricNames.CronJob.jobExecutionTotal, NilVec)
        b == IfConfigured(a.r, meta.JobExecutionLatencyMillis, "GetPromHistogramVec",
                          MetricNames.CronJob.jobExecutionLatencyMillis, NilVec)
    IN  [set |-> [jobExecutionTotal |-> a.vec, jobExecutionLatencyMillis |-> b.vec], r |-> b.r]

PromDBMetrics_LogMetricsPre(set, lv) ==
    LET m0 == Start(set)
    IN  IF ~m0.set.operationsTotal.nil
        THEN Inc(Deref(m0, lv), "operationsTotal", <<lv.OpType, lv.Source, lv.AdEntity, lv.IsTxn, Total>>)
        ELSE m0

\* LogMetricsPost of the subpackage leaving the latency unobserved.
PromDBMetrics_LogMetricsPost_NoLatency(set, appErr, lv, opsExecTime) ==
    LET m0 == Start(set)
    IN  IF ~m0.set.operationsTotal.nil
        THEN IF ~appErr.nil
             THEN Inc(Deref(m0, lv), "operationsTotal",
                      <<lv.OpType, lv.Source, lv.AdEntity, lv.IsTxn, Failure>>)
             ELSE Inc(Deref(m0, lv), "operationsTotal",
                      <<lv.OpType, lv.Source, lv.AdEntity, lv.IsTxn, Success>>)
        ELSE m0

PromDBMetrics_LogMetricsPost(set, appErr, lv, opsExecTime) ==
    LET m0 == Start(set)
        m1 == IF ~m0.set.operationsTotal.nil
              THEN IF ~appErr.nil
                   THEN Inc(Deref(m0, lv), "operationsTotal",
                            <<lv.OpType, lv.Source, lv.AdEntity, lv.IsTxn, Failure>>)
                   ELSE Inc(Deref(m0, lv), "operationsTotal",
                            <<lv.OpType, lv.Source, lv.AdEntity, lv.IsTxn, Success>>)
              ELSE m0
        m2 == IF ~m1.set.operationsLatencyMillis.nil
              THEN Observe(Deref(m1, lv), "operationsLatencyMillis",
                           <<lv.OpType, lv.Source, lv.AdEntity, lv.IsTxn>>,
                           Float64(Milliseconds(Since(opsExecTime))))
              ELSE m1
    IN  m2

PromCronJobMetrics_LogMetricsPre(set, lv) ==
    LET m0 == Start(set)
    IN  IF ~m0.set.jobExecutionTotal.nil
        THEN Inc(Deref(m0, lv), "jobExecutionTotal", <<lv.JobName, Total>>)
        ELSE m0

PromCronJobMetrics_LogMetricsPost(set, appErr, lv, opsExecTime) ==
    LET m0 == Start(set)
        m1 == IF ~m0.set.jobExecutionTotal.nil
              THEN IF ~appErr.nil
                   THEN Inc(Deref(m0, lv), "jobExecutionTotal", <<lv.JobName, Failure>>)
                   ELSE Inc(Deref(m0, lv), "jobExecutionTotal", <<lv.JobName, Success>>)
              ELSE m0
        m2 == IF ~m1.set.jobExecutionLatencyMillis.nil
              THEN Observe(Deref(m1, lv), "jobExecutionLatencyMillis", <<lv.JobName>>,
                           Float64(Milliseconds(Since(opsExecTime))))
              ELSE m1
    IN  m2

NewPromDownstreamServiceMetrics(r, meta) ==
    LET a == IfConfigured(r, meta.HTTPRequests, "GetPromCounterVec",
                          MetricNames.Downstream.httpRequests, NilVec)
        b == IfConfigured(a.r, meta.HTTPRequestsLatencyMillis, "GetPromHistogramVec",
                          MetricNames.Downstream.httpRequestsLatencyMillis, NilVec)
        c == IfConfigured(b.r, meta.HTTPRequestSizeBytes, "GetPromHistogramVec",
                          MetricNames.Downstream.httpRequestSizeBytes, NilVec)
        d == IfConfigured(c.r, meta.HTTPResponseSizeBytes, "GetPromHistogramVec",
                          MetricNames.Downstream.httpResponseSizeBytes, NilVec)
    IN  [set |-> [httpRequests |-> a.vec, httpRequestsLatencyMillis |-> b.vec,
                  httpRequestSizeBytes |-> c.vec, httpResponseSizeBytes |-> d.vec],
         r |-> d.r]

NewPromPubSubMetrics(r, meta) ==
    LET a == IfConfigured(r, meta.TotalMessagesConsumed, "GetPromCounterVec",
                          MetricNames.PubSub.totalMessagesConsumed, NilVec)
        b == IfConfigured(a.r, meta.TotalMessagesPublished, "GetPromCounterVec",
                          MetricNames.PubSub.totalMessagesPublished, NilVec)
        c == IfConfigured(b.r, meta.MessagesPublishedLatencyMillis, "GetPromHistogramVec",
                          MetricNames.PubSub.messagesPublishedLatencyMillis, NilVec)
        d == IfConfigured(c.r, meta.MessagesPublishedSizeBytes, "GetPromHistogramVec",
                          MetricNames.PubSub.messagesPublishedSizeBytes, NilVec)
    IN  [set |-> [totalMessagesConsumed |-> a.vec, totalMessagesPublished |-> b.vec,
                  messagesPublishedLatencyMillis |-> c.vec,
                  messagesPublishedSizeBytes |-> d.vec],
         r |-> d.r]

NewPromAppMetrics(r, meta) ==
    LET a == IfConfigured(r, meta.ApplicationErrorsCounter, "GetPromGaugeVec",
                          MetricNames.App.applicationErrorsCounter, NilGaugeVec)
    IN  [set |-> [applicationErrorsCounter |-> a.vec], r |-> a.r]

\* The names a set's handles were registered under.
Registered(set, names) ==
    { FQName(Namespace, names[f]) : f \in { g \in DOMAIN set : ~set[g].nil } }

---------------------------------------------------------------------------
(* Downstream Service, prometheus subpackage. *)

PromDownstreamServiceMetrics_LogMetricsPre(set, lv) ==
    LET m0 == Start(set)
    IN  IF ~m0.set.httpRequests.nil
        THEN Inc(Deref(m0, lv), "httpRequests", <<lv.Name, lv.HTTPMethod, <<>>, lv.APIIdentifier, Total>>)
        ELSE m0

\* LogMetricsPost deriving the outcome from the response code.
In2XXCode(code) == \E k \in HTTPStatus2XXMinValue..HTTPStatus2XXMaxValue : code = GoInt(k)

PromDownstreamServiceMetrics_LogMetricsPost_ByCode(set, success, lv, httpMetrics) ==
    IF httpMetrics.nil THEN [set |-> set, panic |-> TRUE]
    ELSE
    LET httpCodeStr == Itoa(httpMetrics.Code)
        m0 == Start(set)
        m1 == IF ~m0.set.httpRequests.nil
              THEN IF In2XXCode(httpMetrics.Code)
                   THEN Inc(Deref(m0, lv), "httpRequests", <<lv.Name, httpMetrics.Method, httpCodeStr, lv.APIIdentifier, Success>>)
                   ELSE Inc(Deref(m0, lv), "httpRequests", <<lv.Name, httpMetrics.Method, httpCodeStr, lv.APIIdentifier, Failure>>)
              ELSE m0
        m2 == IF ~m1.set.httpRequestsLatencyMillis.nil
              THEN Observe(Deref(m1, lv), "httpRequestsLatencyMillis",
                           <<lv.Name, httpMetrics.Method, httpCodeStr, lv.APIIdentifier>>,
                           Float64(Milliseconds(httpMetrics.ResponseTime)))
              ELSE m1
        m3 == IF ~m2.set.httpRequestSizeBytes.nil
              THEN Observe(Deref(m2, lv), "httpRequestSizeBytes",
                           <<lv.Name, httpMetrics.Method, httpCodeStr, lv.APIIdentifier>>,
                           Float64(httpMetrics.RequestBodySizeBytes))
              ELSE m2
        m4 == IF ~m3.set.httpResponseSizeBytes.nil
              THEN Observe(Deref(m3, lv), "httpResponseSizeBytes",
                           <<lv.Name, httpMetrics.Method, httpCodeStr, lv.APIIdentifier>>,
                           Float64(httpMetrics.ResponseBodySizeBytes))
              ELSE m3
    IN  m4

PromDownstreamServiceMetrics_LogMetricsPost(set, success, lv, httpMetrics) ==
    IF httpMetrics.nil THEN [set |-> set, panic |-> TRUE]
    ELSE
    LET httpCodeStr == Itoa(httpMetrics.Code)
        m0 == Start(set)
        m1 == IF ~m0.set.httpRequests.nil
              THEN IF success
                   THEN Inc(Deref(m0, lv), "httpRequests", <<lv.Name, httpMetrics.Method, httpCodeStr, lv.APIIdentifier, Success>>)
                   ELSE Inc(Deref(m0, lv), "httpRequests", <<lv.Name, httpMetrics.Method, httpCodeStr, lv.APIIdentifier, Failure>>)
              ELSE m0
        m2 == IF ~m1.set.httpRequestsLatencyMillis.nil
              THEN Observe(Deref(m1, lv), "httpRequestsLatencyMillis",
                           <<lv.Name, httpMetrics.Method, httpCodeStr, lv.APIIdentifier>>,
                           Float64(Milliseconds(httpMetrics.ResponseTime)))
              ELSE m1
        m3 == IF ~m2.set.httpRequestSizeBytes.nil
              THEN Observe(Deref(m2, lv), "httpRequestSizeBytes",
                           <<lv.Name, httpMetrics.Method, httpCodeStr, lv.APIIdentifier>>,
                           Float64(httpMetrics.RequestBodySizeBytes))
              ELSE m2
        m4 == IF ~m3.set.httpResponseSizeBytes.nil
              THEN Observe(Deref(m3, lv), "httpResponseSizeBytes",
                           <<lv.Name, httpMetrics.Method, httpCodeStr, lv.APIIdentifier>>,
                           Float64(httpMetrics.ResponseBodySizeBytes))
              ELSE m3
    IN  m4

---------------------------------------------------------------------------
(* Histogram buckets. *)

\* buckets[i] = start; start *= factor, for i = 0 .. count-1.
RECURSIVE FillBuckets(_, _, _)
FillBuckets(start, factor, count) ==
    IF count = 0 THEN <<>>
    ELSE <<start>> \o FillBuckets(start * factor, factor, count - 1)

\* prometheus.ExponentialBuckets: panics unless count >= 1, start > 0 and
\* factor > 1.
ExponentialBuckets(start, factor, count) ==
    IF count < 1 \/ start <= 0 \/ factor <= 1
    THEN [panic |-> TRUE, buckets |-> <<>>]
    ELSE [panic |-> FALSE, buckets |-> FillBuckets(start, factor, count)]

\* The generator with the first boundary already multiplied.
GetPromExponentialBuckets_SkipStart(start, factor, count) ==
    ExponentialBuckets(start * factor, factor, count)

GetPromExponentialBuckets(start, factor, count) ==
    ExponentialBuckets(start, factor, count)

---------------------------------------------------------------------------
(* The state after construction. *)

\* The metric sets the library offers in each domain (the interface's
\* implementations): the root package's, the prometheus subpackage's and the
\* No-Op one, and the Mock one of the interfaces package; and the bucket
\* generator of the prometheus subpackage.
Impls ==
    { <<"Database", "root">>, <<"CronJob", "root">>, <<"Downstream", "root">>,
      <<"PubSub", "root">>, <<"PubSub", "prom">>, <<"Router", "root">>,
      <<"App", "root">>, <<"App", "prom">>, <<"App", "noop">>,
      <<"Downstream", "prom">>, <<"Database", "prom">>, <<"CronJob", "prom">>,
      <<"Database", "noop">>, <<"CronJob", "noop">>, <<"Downstream", "noop">>,
      <<"PubSub", "noop">>, <<"Router", "noop">>,
      <<"Database", "mock">>, <<"CronJob", "mock">>, <<"Downstream", "mock">>,
      <<"PubSub", "mock">>, <<"Router", "mock">>, <<"App", "mock">>,
      <<"Buckets", "prom">>, <<"Registry", "prom">>, <<"RequestSize", "root">> }

\* The configurations of the run's own domain: any for a live metric set;
\* beside a No-Op or a Mock the process has its live metrics fully enabled.
MetasOf(d, metas, none) ==
    IF domain # d THEN {none}
    ELSE IF impl \in {"root", "prom"} THEN metas
    ELSE { meta \in metas : \A f \in DOMAIN meta : ~meta[f].nil }

\* The zero value of each Mock struct, as its constructor returns it.
NewMock(d) ==
    CASE d \in {"Database", "CronJob"} ->
           [ LogMetricsPreCalled |-> FALSE, LogMetricsPreLabelValues |-> Nil,
             LogMetricsPostCalled |-> FALSE, LogMetricsPostAppErr |-> Nil,
             LogMetricsPostLabelValues |-> Nil ]
      [] d = "Downstream" ->
           [ LogMetricsPreCalled |-> FALSE, LogMetricsPreLabelValues |-> Nil,
             LogMetricsPostCalled |-> FALSE, LogMetricsPostSuccess |-> FALSE,
             LogMetricsPostLabelValues |-> Nil, LogMetricsPostHTTPMetrics |-> Nil ]
      [] d = "PubSub" ->
           [ LogMetricsPreCalled |-> FALSE, LogMetricsPreLabelValues |-> Nil,
             LogMetricsPostCalled |-> FALSE, LogMetricsPostLabelValues |-> Nil,
             LogMetricsPostEventTxnData |-> Nil ]
      [] d = "Router" -> [ LogMetricsCalled |-> FALSE, LogMetricsPath |-> "" ]
      [] d = "App" ->
           [ LogMetricsCalled |-> FALSE, LogMetricsErrCodes |-> Nil,
             DecrementAppErrorCountCalled |-> FALSE,
             DecrementAppErrorCountErrCode |-> "" ]

ClockDomains == {"Database", "CronJob", "PubSub", "Router"}

NoRet == Nil
\* A start marker that is the zero time.
TimeRet_Zero(t) == [nil |-> FALSE, t |-> 0]

\* The time.Time a LogMetricsPre returns.
TimeRet(t) == [nil |-> FALSE, t |-> t]

Init ==
    /\ \E di \in Impls : domain = di[1] /\ impl = di[2]
    /\ dm \in { IF impl = "prom" THEN NewPromDatabaseMetrics(EmptyRegistry, meta).set
                 ELSE NewDatabaseMetrics(meta) : meta \in
                  MetasOf("Database", DBMetricsMetas,
                          [OperationsTotal |-> Nil, OperationsLatencyMillis |-> Nil]) }
    /\ cjm \in { IF impl = "prom" THEN NewPromCronJobMetrics(EmptyRegistry, meta).set
                  ELSE NewCronJobMetrics(meta) : meta \in
                  MetasOf("CronJob", CronJobMetricsMetas,
                          [JobExecutionTotal |-> Nil, JobExecutionLatencyMillis |-> Nil]) }
    /\ dsm \in { IF impl = "prom" THEN NewPromDownstreamServiceMetrics(EmptyRegistry, meta).set
                  ELSE NewDownstreamServiceMetrics(meta) :
                  meta \in
                  MetasOf("Downstream", DownstreamServiceMetricsMetas,
                          [HTTPRequests |-> Nil, HTTPRequestsLatencyMillis |-> Nil,
                           HTTPRequestSizeBytes |-> Nil, HTTPResponseSizeBytes |-> Nil]) }
    /\ psm \in { IF impl = "prom" THEN NewPromPubSubMetrics(EmptyRegistry, meta).set
                  ELSE NewPubSubMetrics(meta) :
                  meta \in
                  MetasOf("PubSub", PSMetricsMetas,
                          [TotalMessagesConsumed |-> Nil, TotalMessagesPublished |-> Nil,
                           MessagesPublishedLatencyMillis |-> Nil,
                           MessagesPublishedSizeBytes |-> Nil]) }
    /\ rlm \in { NewRouterLevelMetrics(meta) : meta \in
                  MetasOf("Router", RouterMetricsMetas,
                          [HTTPRequests |-> Nil, HTTPRequestsLatencyMillis |-> Nil,
                           HTTPRequestSizeBytes |-> Nil, HTTPResponseSizeBytes |-> Nil]) }
    /\ cm \in { IF impl = "prom" THEN NewPromAppMetrics(EmptyRegistry, meta).set
                 ELSE NewAppMetrics(meta) :
                  meta \in
                  MetasOf("App", AppMetricsMetas, [ApplicationErrorsCounter |-> Nil]) }
    /\ now = 0
    /\ pending = EmptyBag
    /\ gc = Nil
    /\ last = [op |-> "none", arg |-> Nil, ret |-> NoRet, panic |-> FALSE]
    /\ nPre = 0
    /\ nPost = 0
    /\ nPostTxn = 0
    /\ nCalls = 0
    /\ phase = "pre"
    /\ fault = FALSE
    /\ registry = Registered(dm, MetricNames.Database) \cup Registered(cjm, MetricNames.CronJob)
                     \cup Registered(dsm, MetricNames.Downstream)
                     \cup Registered(psm, MetricNames.PubSub)
                     \cup Registered(rlm, MetricNames.Router)
                     \cup Registered(cm, MetricNames.App)
    /\ logged = 0
    /\ exposed = NothingExposed
    /\ tally = [c \in AppErrorCodes |-> 0]
    /\ mock = IF impl = "mock" THEN NewMock(domain) ELSE Nil
    /\ threads \in {<<>>} \cup
                  IF impl = "root" /\ domain \in {"Database", "CronJob"}
                  THEN { [i \in 1..k |-> [pc |-> "pre", lv |-> Nil, appErr |-> Nil, start |-> 0]] :
                         k \in 1..MaxThreads }
                  ELSE {}

---------------------------------------------------------------------------
(* The environment: the clock, and the callers' bookkeeping around a call. *)

\* Time passes.
Tick ==
    /\ ~fault
    /\ domain \in ClockDomains
    /\ threads = <<>>
    /\ now < MaxTicks
    /\ now' = now + 1
    /\ UNCHANGED <<domain, impl, dm, cjm, dsm, psm, rlm, cm, pending, gc, last,
                   nPre, nPost, nPostTxn, nCalls, phase, fault,
                   registry, logged, exposed, tally, mock, threads>>

\* The process-wide registerer and the logger as they are.
Registerer == [registry |-> registry, logged |-> logged, exposed |-> exposed]

\* What a scrape reads after a call left the metric set as set: a handle that
\* is the registered collector is that collector, so what was recorded
\* through it is exposed; a handle that is another object is not.  Only the
\* process that constructs its sets as it runs is followed in this way; it
\* logs through its Downstream Service and Application Error sets.
Through(set) ==
    IF domain # "Registry" THEN exposed
    ELSE LET names == IF "applicationErrorsCounter" \in DOMAIN set
                      THEN MetricNames.App ELSE MetricNames.Downstream
             own == { f \in DOMAIN set :
                        ~set[f].nil /\ FQName(Namespace, names[f]) \in exposed.held }
         IN  [exposed EXCEPT !.collectors =
                 [fq \in DOMAIN @ |->
                     IF \E f \in own : fq = FQName(Namespace, names[f])
                     THEN set[CHOOSE f \in own : fq = FQName(Namespace, names[f])]
                     ELSE @[fq]]]

\* A LogMetricsPre call returned (or panicked): the caller keeps the label
\* values and the start marker for its LogMetricsPost.
AfterPre(op, lv, ret, m) ==
    /\ fault' = m.panic
    /\ exposed' = Through(m.set)
    /\ pending' = IF m.panic THEN pending
                  ELSE pending (+) SetToBag({[lv |-> lv, start |-> now]})
    /\ last' = [op |-> op, arg |-> [lv |-> lv], ret |-> ret, panic |-> m.panic]
    /\ nPre' = nPre + 1
    /\ phase' = IF phase = "pre" THEN "pre" ELSE "mixed"
    /\ UNCHANGED <<domain, impl, now, gc, nPost, nPostTxn, nCalls,
                   registry, logged, tally, threads>>

\* A LogMetricsPost call returned (or panicked): operation p is over.
AfterPost(op, p, arg, m) ==
    /\ fault' = m.panic
    /\ exposed' = Through(m.set)
    /\ pending' = pending (-) SetToBag({p})
    /\ last' = [op |-> op, arg |-> arg, ret |-> NoRet, panic |-> m.panic]
    /\ nPost' = nPost + 1
    /\ phase' = IF phase = "mixed" THEN "mixed" ELSE "post"
    /\ UNCHANGED <<domain, impl, now, gc, nPre, nCalls, registry, logged, tally,
                   threads>>

\* The count the callers of the one Application Error set keep, after a call
\* of op with arguments arg: LogMetrics adds the occurrences of each code in
\* its list, DecrementAppErrorCount takes one from its code.
Tallied(op, arg) ==
    CASE domain # "App" -> tally
      [] op \in {"AppMetrics.LogMetrics", "PromAppMetrics.LogMetrics"} ->
            [c \in DOMAIN tally |->
                tally[c] + Cardinality({ i \in 1..Len(arg.errCodes) : arg.errCodes[i] = c })]
      [] op \in {"AppMetrics.DecrementAppErrorCount",
                 "PromAppMetrics.DecrementAppErrorCount"} ->
            [tally EXCEPT ![arg.errCode] = @ - 1]
      [] OTHER -> tally

\* A single-shot call returned (or panicked).
AfterCall(op, arg, m) ==
    /\ fault' = m.panic
    /\ exposed' = Through(m.set)
    /\ last' = [op |-> op, arg |-> arg, ret |-> NoRet, panic |-> m.panic]
    /\ nCalls' = nCalls + 1
    /\ tally' = Tallied(op, arg)
    /\ UNCHANGED <<domain, impl, now, pending, gc, nPre, nPost, nPostTxn, phase,
                   registry, logged, threads>>

---------------------------------------------------------------------------
(* Database and Cron Job calls. *)

DBLogMetricsPre ==
    /\ domain = "Database" /\ impl = "root" /\ threads = <<>> /\ ~fault /\ nPre < MaxOps
    /\ \E lv \in DBLabelValues \cup {Nil} :
         LET m == DBMetrics_LogMetricsPre(dm, lv)
         IN  /\ dm' = m.set
             /\ AfterPre("DBMetrics.LogMetricsPre", lv, TimeRet(now), m)
    /\ UNCHANGED <<cjm, dsm, psm, rlm, cm, nPostTxn, mock>>

DBLogMetricsPost ==
    /\ domain = "Database" /\ impl = "root" /\ threads = <<>> /\ ~fault
    /\ \E p \in BagToSet(pending), appErr \in AppErrors :
         LET m == DBMetrics_LogMetricsPost(dm, appErr, p.lv, p.start)
         IN  /\ dm' = m.set
             /\ AfterPost("DBMetrics.LogMetricsPost", p,
                          [appErr |-> appErr, lv |-> p.lv, opsExecTime |-> p.start], m)
    /\ UNCHANGED <<cjm, dsm, psm, rlm, cm, nPostTxn, mock>>

CronLogMetricsPre ==
    /\ domain = "CronJob" /\ impl = "root" /\ threads = <<>> /\ ~fault /\ nPre < MaxOps
    /\ \E lv \in CronJobLabelValues \cup {Nil} :
         LET m == CronJobMetrics_LogMetricsPre(cjm, lv)
         IN  /\ cjm' = m.set
             /\ AfterPre("CronJobMetrics.LogMetricsPre", lv, TimeRet(now), m)
    /\ UNCHANGED <<dm, dsm, psm, rlm, cm, nPostTxn, mock>>

CronLogMetricsPost ==
    /\ domain = "CronJob" /\ impl = "root" /\ threads = <<>> /\ ~fault
    /\ \E p \in BagToSet(pending), appErr \in AppErrors :
         LET m == CronJobMetrics_LogMetricsPost(cjm, appErr, p.lv, p.start)
         IN  /\ cjm' = m.set
             /\ AfterPost("CronJobMetrics.LogMetricsPost", p,
                          [appErr |-> appErr, lv |-> p.lv, opsExecTime |-> p.start], m)
    /\ UNCHANGED <<dm, dsm, psm, rlm, cm, nPostTxn, mock>>

PromDBLogMetricsPre ==
    /\ domain = "Database" /\ impl = "prom" /\ ~fault /\ nPre < MaxOps
    /\ \E lv \in DBLabelValues \cup {Nil} :
         LET m == PromDBMetrics_LogMetricsPre(dm, lv)
         IN  /\ dm' = m.set
             /\ AfterPre("PromDBMetrics.LogMetricsPre", lv, TimeRet(now), m)
    /\ UNCHANGED <<cjm, dsm, psm, rlm, cm, nPostTxn, mock>>

PromDBLogMetricsPost ==
    /\ domain = "Database" /\ impl = "prom" /\ ~fault
    /\ \E p \in BagToSet(pending), appErr \in AppErrors :
         LET m == PromDBMetrics_LogMetricsPost(dm, appErr, p.lv, p.start)
         IN  /\ dm' = m.set
             /\ AfterPost("PromDBMetrics.LogMetricsPost", p,
                          [appErr |-> appErr, lv |-> p.lv, opsExecTime |-> p.start], m)
    /\ UNCHANGED <<cjm, dsm, psm, rlm, cm, nPostTxn, mock>>

PromCronLogMetricsPre ==
    /\ domain = "CronJob" /\ impl = "prom" /\ ~fault /\ nPre < MaxOps
    /\ \E lv \in CronJobLabelValues \cup {Nil} :
         LET m == PromCronJobMetrics_LogMetricsPre(cjm, lv)
         IN  /\ cjm' = m.set
             /\ AfterPre("PromCronJobMetrics.LogMetricsPre", lv, TimeRet(now), m)
    /\ UNCHANGED <<dm, dsm, psm, rlm, cm, nPostTxn, mock>>

PromCronLogMetricsPost ==
    /\ domain = "CronJob" /\ impl = "prom" /\ ~fault
    /\ \E p \in BagToSet(pending), appErr \in AppErrors :
         LET m == PromCronJobMetrics_LogMetricsPost(cjm, appErr, p.lv, p.start)
         IN  /\ cjm' = m.set
             /\ AfterPost("PromCronJobMetrics.LogMetricsPost", p,
                          [appErr |-> appErr, lv |-> p.lv, opsExecTime |-> p.start], m)
    /\ UNCHANGED <<dm, dsm, psm, rlm, cm, nPostTxn, mock>>

---------------------------------------------------------------------------
(* Goroutines calling the Database or the Cron Job metric set at the same   *)
(* time, each its LogMetricsPre and then its LogMetricsPost.  A step is one  *)
(* call on the metrics client, which the client makes atomic; what else a   *)
(* method does is local to its goroutine.  The clock stands still.          *)

\* Goroutine i took a step: its record becomes t.
AfterStep(op, i, t, m) ==
    /\ threads' = [threads EXCEPT ![i] = t]
    /\ fault' = m.panic
    /\ last' = [op |-> op, arg |-> [thread |-> i, lv |-> t.lv, appErr |-> t.appErr],
                ret |-> NoRet, panic |-> m.panic]
    /\ phase' = "mixed"
    /\ UNCHANGED <<domain, impl, dsm, psm, rlm, cm, now, pending, gc, nPostTxn, nCalls,
                   registry, logged, exposed, tally, mock>>

\* LogMetricsPre: the increment of "total", and the marker it returns.
GoDBLogMetricsPre ==
    /\ domain = "Database" /\ ~fault
    /\ \E i \in DOMAIN threads, lv \in DBLabelValues :
         LET m == DBMetrics_LogMetricsPre(dm, lv)
         IN  /\ threads[i].pc = "pre"
             /\ dm' = m.set
             /\ AfterStep("go DBMetrics.LogMetricsPre", i,
                          [threads[i] EXCEPT !.pc = "post", !.lv = lv, !.start = now], m)
    /\ nPre' = nPre + 1
    /\ UNCHANGED <<cjm, nPost>>

\* LogMetricsPost as far as its increment of the outcome.
GoDBLogMetricsPostInc ==
    /\ domain = "Database" /\ ~fault
    /\ \E i \in DOMAIN threads, appErr \in AppErrors :
         LET t == threads[i]
             m == DBMetrics_LogMetricsPost([dm EXCEPT !.operationsLatencyMillis = NilVec],
                                           appErr, t.lv, t.start)
         IN  /\ t.pc = "post"
             /\ dm' = [dm EXCEPT !.operationsTotal = m.set.operationsTotal]
             /\ AfterStep("go DBMetrics.LogMetricsPost.Inc", i,
                          [t EXCEPT !.pc = "observe", !.appErr = appErr], m)
    /\ UNCHANGED <<cjm, nPre, nPost>>

\* The rest of LogMetricsPost: its observation of the latency.
GoDBLogMetricsPostObserve ==
    /\ domain = "Database" /\ ~fault
    /\ \E i \in DOMAIN threads :
         LET t == threads[i]
             m == DBMetrics_LogMetricsPost([dm EXCEPT !.operationsTotal = NilVec],
                                           t.appErr, t.lv, t.start)
         IN  /\ t.pc = "observe"
             /\ dm' = [dm EXCEPT !.operationsLatencyMillis = m.set.operationsLatencyMillis]
             /\ AfterStep("go DBMetrics.LogMetricsPost", i,
                          [pc |-> "done", lv |-> Nil, appErr |-> Nil, start |-> 0], m)
    /\ nPost' = nPost + 1
    /\ UNCHANGED <<cjm, nPre>>

GoCronLogMetricsPre ==
    /\ domain = "CronJob" /\ ~fault
    /\ \E i \in DOMAIN threads, lv \in CronJobLabelValues :
         LET m == CronJobMetrics_LogMetricsPre(cjm, lv)
         IN  /\ threads[i].pc = "pre"
             /\ cjm' = m.set
             /\ AfterStep("go CronJobMetrics.LogMetricsPre", i,
                          [threads[i] EXCEPT !.pc = "post", !.lv = lv, !.start = now], m)
    /\ nPre' = nPre + 1
    /\ UNCHANGED <<dm, nPost>>

GoCronLogMetricsPostInc ==
    /\ domain = "CronJob" /\ ~fault
    /\ \E i \in DOMAIN threads, appErr \in AppErrors :
         LET t == threads[i]
             m == CronJobMetrics_LogMetricsPost([cjm EXCEPT !.jobExecutionLatencyMillis = NilVec],
                                                appErr, t.lv, t.start)
         IN  /\ t.pc = "post"
             /\ cjm' = [cjm EXCEPT !.jobExecutionTotal = m.set.jobExecutionTotal]
             /\ AfterStep("go CronJobMetrics.LogMetricsPost.Inc", i,
                          [t EXCEPT !.pc = "observe", !.appErr = appErr], m)
    /\ UNCHANGED <<dm, nPre, nPost>>

GoCronLogMetricsPostObserve ==
    /\ domain = "CronJob" /\ ~fault
    /\ \E i \in DOMAIN threads :
         LET t == threads[i]
             m == CronJobMetrics_LogMetricsPost([cjm EXCEPT !.jobExecutionTotal = NilVec],
                                                t.appErr, t.lv, t.start)
         IN  /\ t.pc = "observe"
             /\ cjm' = [cjm EXCEPT !.jobExecutionLatencyMillis = m.set.jobExecutionLatencyMillis]
             /\ AfterStep("go CronJobMetrics.LogMetricsPost", i,
                          [pc |-> "done", lv |-> Nil, appErr |-> Nil, start |-> 0], m)
    /\ nPost' = nPost + 1
    /\ UNCHANGED <<dm, nPre>>

---------------------------------------------------------------------------
(* Downstream Service calls. *)

DSLogMetricsPre ==
    /\ domain = "Downstream" /\ impl = "root" /\ ~fault /\ nPre < MaxOps
    /\ \E lv \in DownstreamServiceLabelValues \cup {Nil} :
         LET m == DownstreamServiceMetrics_LogMetricsPre(dsm, lv)
         IN  /\ dsm' = m.set
             /\ AfterPre("DownstreamServiceMetrics.LogMetricsPre", lv, NoRet, m)
    /\ UNCHANGED <<dm, cjm, psm, rlm, cm, nPostTxn, mock>>

DSLogMetricsPost ==
    /\ domain = "Downstream" /\ impl = "root" /\ ~fault
    /\ \E p \in BagToSet(pending), success \in BOOLEAN,
          httpMetrics \in HTTPMetricsValues \cup {Nil} :
         LET m == DownstreamServiceMetrics_LogMetricsPost(dsm, success, p.lv, httpMetrics)
         IN  /\ dsm' = m.set
             /\ AfterPost("DownstreamServiceMetrics.LogMetricsPost", p,
                          [success |-> success, lv |-> p.lv, httpMetrics |-> httpMetrics], m)
    /\ UNCHANGED <<dm, cjm, psm, rlm, cm, nPostTxn, mock>>

PromDSLogMetricsPre ==
    /\ impl = "prom" /\ ~fault
    /\ \/ domain = "Downstream" /\ nPre < MaxOps
       \/ domain = "Registry" /\ nPre < MaxUses
    /\ \E lv \in DownstreamServiceLabelValues
                  \cup (IF domain = "Downstream" THEN {Nil} ELSE {}) :
         LET m == PromDownstreamServiceMetrics_LogMetricsPre(dsm, lv)
         IN  /\ dsm' = m.set
             /\ AfterPre("PromDownstreamServiceMetrics.LogMetricsPre", lv, NoRet, m)
    /\ UNCHANGED <<dm, cjm, psm, rlm, cm, nPostTxn, mock>>

PromDSLogMetricsPost ==
    /\ domain \in {"Downstream", "Registry"} /\ impl = "prom" /\ ~fault
    /\ \E p \in BagToSet(pending), success \in BOOLEAN,
          httpMetrics \in HTTPMetricsValues
                            \cup (IF domain = "Downstream" THEN {Nil} ELSE {}) :
         LET m == PromDownstreamServiceMetrics_LogMetricsPost(dsm, success, p.lv, httpMetrics)
         IN  /\ dsm' = m.set
             /\ AfterPost("PromDownstreamServiceMetrics.LogMetricsPost", p,
                          [success |-> success, lv |-> p.lv, httpMetrics |-> httpMetrics], m)
    /\ UNCHANGED <<dm, cjm, psm, rlm, cm, nPostTxn, mock>>

---------------------------------------------------------------------------
(* Pub/Sub calls.  The caller may set ErrorCode in its label values between *)
(* Pre and Post, and passes transaction data only for a publish.            *)

PSLogMetricsPre ==
    /\ domain = "PubSub" /\ impl = "root" /\ ~fault /\ nPre < MaxOps
    /\ \E lv \in PSLabelValues \cup {Nil} :
         LET m == PSMetrics_LogMetricsPre(psm, lv)
         IN  /\ psm' = m.set
             /\ AfterPre("PSMetrics.LogMetricsPre", lv, TimeRet(now), m)
    /\ UNCHANGED <<dm, cjm, dsm, rlm, cm, nPostTxn, mock>>

PSLogMetricsPost ==
    /\ domain = "PubSub" /\ impl = "root" /\ ~fault
    /\ \E p \in BagToSet(pending), ec \in PSErrorCodes, eventTxnData \in EventTxnDataValues :
         LET lv == IF p.lv = Nil THEN Nil ELSE [p.lv EXCEPT !.ErrorCode = ec]
             m  == PSMetrics_LogMetricsPost(psm, lv, eventTxnData)
         IN  /\ psm' = m.set
             /\ nPostTxn' = IF eventTxnData.nil THEN nPostTxn ELSE nPostTxn + 1
             /\ AfterPost("PSMetrics.LogMetricsPost", p,
                          [lv |-> lv, eventTxnData |-> eventTxnData], m)
    /\ UNCHANGED <<dm, cjm, dsm, rlm, cm, mock>>

PromPSLogMetricsPre ==
    /\ domain = "PubSub" /\ impl = "prom" /\ ~fault /\ nPre < MaxOps
    /\ \E lv \in PSLabelValues \cup {Nil} :
         LET m == PromPSMetrics_LogMetricsPre(psm, lv)
         IN  /\ psm' = m.set
             /\ AfterPre("PromPSMetrics.LogMetricsPre", lv, TimeRet(now), m)
    /\ UNCHANGED <<dm, cjm, dsm, rlm, cm, nPostTxn, mock>>

PromPSLogMetricsPost ==
    /\ domain = "PubSub" /\ impl = "prom" /\ ~fault
    /\ \E p \in BagToSet(pending), ec \in PSErrorCodes, eventTxnData \in EventTxnDataValues :
         LET lv == IF p.lv = Nil THEN Nil ELSE [p.lv EXCEPT !.ErrorCode = ec]
             m  == PromPSMetrics_LogMetricsPost(psm, lv, eventTxnData)
         IN  /\ psm' = m.set
             /\ nPostTxn' = IF eventTxnData.nil THEN nPostTxn ELSE nPostTxn + 1
             /\ AfterPost("PromPSMetrics.LogMetricsPost", p,
                          [lv |-> lv, eventTxnData |-> eventTxnData], m)
    /\ UNCHANGED <<dm, cjm, dsm, rlm, cm, mock>>

---------------------------------------------------------------------------
(* Application Error calls. *)

AppLogMetrics ==
    /\ domain = "App" /\ impl = "root" /\ ~fault /\ nCalls < MaxOps
    /\ \E errCodes \in ErrCodeLists :
         LET m == AppMetrics_LogMetrics(cm, errCodes)
         IN  /\ cm' = m.set
             /\ AfterCall("AppMetrics.LogMetrics", [errCodes |-> errCodes], m)
    /\ UNCHANGED <<dm, cjm, dsm, psm, rlm, mock>>

AppDecrementAppErrorCount ==
    /\ domain = "App" /\ impl = "root" /\ ~fault /\ nCalls < MaxOps
    /\ \E errCode \in AppErrorCodes :
         LET m == AppMetrics_DecrementAppErrorCount(cm, errCode)
         IN  /\ cm' = m.set
             /\ AfterCall("AppMetrics.DecrementAppErrorCount", [errCode |-> errCode], m)
    /\ UNCHANGED <<dm, cjm, dsm, psm, rlm, mock>>

PromAppLogMetrics ==
    /\ impl = "prom" /\ ~fault
    /\ \/ domain = "App" /\ nCalls < MaxOps
       \/ domain = "Registry" /\ nCalls <= MaxConstructions
    /\ \E errCodes \in ErrCodeLists :
         LET m == PromAppMetrics_LogMetrics(cm, errCodes)
         IN  /\ cm' = m.set
             /\ AfterCall("PromAppMetrics.LogMetrics", [errCodes |-> errCodes], m)
    /\ UNCHANGED <<dm, cjm, dsm, psm, rlm, mock>>

PromAppDecrementAppErrorCount ==
    /\ domain = "App" /\ impl = "prom" /\ ~fault /\ nCalls < MaxOps
    /\ \E errCode \in AppErrorCodes :
         LET m == PromAppMetrics_DecrementAppErrorCount(cm, errCode)
         IN  /\ cm' = m.set
             /\ AfterCall("PromAppMetrics.DecrementAppErrorCount", [errCode |-> errCode], m)
    /\ UNCHANGED <<dm, cjm, dsm, psm, rlm, mock>>

NoOpAppLogMetrics ==
    /\ domain = "App" /\ impl = "noop" /\ ~fault /\ nCalls < MaxOps
    /\ \E errCodes \in ErrCodeLists :
         LET m == NoOpPromAppMetrics_LogMetrics(cm, errCodes)
         IN  /\ cm' = m.set
             /\ AfterCall("NoOpPromAppMetrics.LogMetrics", [errCodes |-> errCodes], m)
    /\ UNCHANGED <<dm, cjm, dsm, psm, rlm, mock>>

NoOpAppDecrementAppErrorCount ==
    /\ domain = "App" /\ impl = "noop" /\ ~fault /\ nCalls < MaxOps
    /\ \E errCode \in AppErrorCodes :
         LET m == NoOpPromAppMetrics_DecrementAppErrorCount(cm, errCode)
         IN  /\ cm' = m.set
             /\ AfterCall("NoOpPromAppMetrics.DecrementAppErrorCount", [errCode |-> errCode], m)
    /\ UNCHANGED <<dm, cjm, dsm, psm, rlm, mock>>

---------------------------------------------------------------------------
(* The No-Op variants.  A No-Op value is an empty struct: its methods have  *)
(* no handle to reach the live metrics of the process or the registerer.    *)

\* LogMetricsPre counting the operation as the live variant does.
NoOpDBLogMetricsPre_Counting ==
    /\ domain = "Database" /\ impl = "noop" /\ ~fault /\ nPre < MaxOps
    /\ \E lv \in DBLabelValues :
         LET m == DBMetrics_LogMetricsPre(dm, lv)
         IN  /\ dm' = m.set
             /\ AfterPre("NoOpPromDBMetrics.LogMetricsPre", lv, TimeRet(now), m)
    /\ UNCHANGED <<cjm, dsm, psm, rlm, cm, nPostTxn, mock>>

NoOpDBLogMetricsPre ==
    /\ domain = "Database" /\ impl = "noop" /\ ~fault /\ nPre < MaxOps
    /\ \E lv \in DBLabelValues :
         AfterPre("NoOpPromDBMetrics.LogMetricsPre", lv, TimeRet(now), Start(dm))
    /\ UNCHANGED <<dm, cjm, dsm, psm, rlm, cm, nPostTxn, mock>>

NoOpDBLogMetricsPost ==
    /\ domain = "Database" /\ impl = "noop" /\ ~fault
    /\ \E p \in BagToSet(pending), appErr \in AppErrors :
         AfterPost("NoOpPromDBMetrics.LogMetricsPost", p,
                   [appErr |-> appErr, lv |-> p.lv, opsExecTime |-> p.start], Start(dm))
    /\ UNCHANGED <<dm, cjm, dsm, psm, rlm, cm, nPostTxn, mock>>

NoOpCronLogMetricsPre ==
    /\ domain = "CronJob" /\ impl = "noop" /\ ~fault /\ nPre < MaxOps
    /\ \E lv \in CronJobLabelValues :
         AfterPre("NoOpPromCronJobMetrics.LogMetricsPre", lv, TimeRet(now), Start(cjm))
    /\ UNCHANGED <<dm, cjm, dsm, psm, rlm, cm, nPostTxn, mock>>

NoOpCronLogMetricsPost ==
    /\ domain = "CronJob" /\ impl = "noop" /\ ~fault
    /\ \E p \in BagToSet(pending), appErr \in AppErrors :
         AfterPost("NoOpPromCronJobMetrics.LogMetricsPost", p,
                   [appErr |-> appErr, lv |-> p.lv, opsExecTime |-> p.start], Start(cjm))
    /\ UNCHANGED <<dm, cjm, dsm, psm, rlm, cm, nPostTxn, mock>>

NoOpDSLogMetricsPre ==
    /\ domain = "Downstream" /\ impl = "noop" /\ ~fault /\ nPre < MaxOps
    /\ \E lv \in DownstreamServiceLabelValues :
         AfterPre("NoOpPromDownstreamServiceMetrics.LogMetricsPre", lv, NoRet, Start(dsm))
    /\ UNCHANGED <<dm, cjm, dsm, psm, rlm, cm, nPostTxn, mock>>

NoOpDSLogMetricsPost ==
    /\ domain = "Downstream" /\ impl = "noop" /\ ~fault
    /\ \E p \in BagToSet(pending), success \in BOOLEAN, httpMetrics \in HTTPMetricsValues :
         AfterPost("NoOpPromDownstreamServiceMetrics.LogMetricsPost", p,
                   [success |-> success, lv |-> p.lv, httpMetrics |-> httpMetrics], Start(dsm))
    /\ UNCHANGED <<dm, cjm, dsm, psm, rlm, cm, nPostTxn, mock>>

NoOpPSLogMetricsPre ==
    /\ domain = "PubSub" /\ impl = "noop" /\ ~fault /\ nPre < MaxOps
    /\ \E lv \in PSLabelValues :
         AfterPre("NoOpPromPSMetrics.LogMetricsPre", lv, TimeRet(now), Start(psm))
    /\ UNCHANGED <<dm, cjm, dsm, psm, rlm, cm, nPostTxn, mock>>

NoOpPSLogMetricsPost ==
    /\ domain = "PubSub" /\ impl = "noop" /\ ~fault
    /\ \E p \in BagToSet(pending), ec \in PSErrorCodes, eventTxnData \in EventTxnDataValues :
         LET lv == [p.lv EXCEPT !.ErrorCode = ec]
         IN  /\ nPostTxn' = IF eventTxnData.nil THEN nPostTxn ELSE nPostTxn + 1
             /\ AfterPost("NoOpPromPSMetrics.LogMetricsPost", p,
                          [lv |-> lv, eventTxnData |-> eventTxnData], Start(psm))
    /\ UNCHANGED <<dm, cjm, dsm, psm, rlm, cm, mock>>

---------------------------------------------------------------------------
(* The Mock variants: each method raises its "called" flag and records its  *)
(* arguments in the fields of the Mock value.                               *)

MockDBLogMetricsPre ==
    /\ domain = "Database" /\ impl = "mock" /\ ~fault /\ nPre < MaxOps
    /\ \E lv \in DBLabelValues :
         /\ mock' = [mock EXCEPT !.LogMetricsPreCalled = TRUE,
                                 !.LogMetricsPreLabelValues = lv]
         /\ AfterPre("MockDBMetrics.LogMetricsPre", lv, TimeRet(now), Start(dm))
    /\ UNCHANGED <<dm, cjm, dsm, psm, rlm, cm, nPostTxn>>

\* LogMetricsPost raising the flag of LogMetricsPre as well.
MockDBLogMetricsPost_BothFlags ==
    /\ domain = "Database" /\ impl = "mock" /\ ~fault
    /\ \E p \in BagToSet(pending), appErr \in AppErrors, lv \in DBLabelValues :
         /\ mock' = [mock EXCEPT !.LogMetricsPreCalled = TRUE,
                                 !.LogMetricsPreLabelValues = lv,
                                 !.LogMetricsPostCalled = TRUE,
                                 !.LogMetricsPostAppErr = appErr,
                                 !.LogMetricsPostLabelValues = lv]
         /\ AfterPost("MockDBMetrics.LogMetricsPost", p,
                      [appErr |-> appErr, lv |-> lv, opsExecTime |-> p.start], Start(dm))
    /\ UNCHANGED <<dm, cjm, dsm, psm, rlm, cm, nPostTxn>>

\* A test may hand LogMetricsPost label values other than those of its Pre.
MockDBLogMetricsPost ==
    /\ domain = "Database" /\ impl = "mock" /\ ~fault
    /\ \E p \in BagToSet(pending), appErr \in AppErrors, lv \in DBLabelValues :
         /\ mock' = [mock EXCEPT !.LogMetricsPostCalled = TRUE,
                                 !.LogMetricsPostAppErr = appErr,
                                 !.LogMetricsPostLabelValues = lv]
         /\ AfterPost("MockDBMetrics.LogMetricsPost", p,
                      [appErr |-> appErr, lv |-> lv, opsExecTime |-> p.start], Start(dm))
    /\ UNCHANGED <<dm, cjm, dsm, psm, rlm, cm, nPostTxn>>

MockCronLogMetricsPre ==
    /\ domain = "CronJob" /\ impl = "mock" /\ ~fault /\ nPre < MaxOps
    /\ \E lv \in CronJobLabelValues :
         /\ mock' = [mock EXCEPT !.LogMetricsPreCalled = TRUE,
                                 !.LogMetricsPreLabelValues = lv]
         /\ AfterPre("MockCronJobMetrics.LogMetricsPre", lv, TimeRet(now), Start(cjm))
    /\ UNCHANGED <<dm, cjm, dsm, psm, rlm, cm, nPostTxn>>

MockCronLogMetricsPost ==
    /\ domain = "CronJob" /\ impl = "mock" /\ ~fault
    /\ \E p \in BagToSet(pending), appErr \in AppErrors, lv \in CronJobLabelValues :
         /\ mock' = [mock EXCEPT !.LogMetricsPostCalled = TRUE,
                                 !.LogMetricsPostAppErr = appErr,
                                 !.LogMetricsPostLabelValues = lv]
         /\ AfterPost("MockCronJobMetrics.LogMetricsPost", p,
                      [appErr |-> appErr, lv |-> lv, opsExecTime |-> p.start], Start(cjm))
    /\ UNCHANGED <<dm, cjm, dsm, psm, rlm, cm, nPostTxn>>

MockDSLogMetricsPre ==
    /\ domain = "Downstream" /\ impl = "mock" /\ ~fault /\ nPre < MaxOps
    /\ \E lv \in DownstreamServiceLabelValues :
         /\ mock' = [mock EXCEPT !.LogMetricsPreCalled = TRUE,
                                 !.LogMetricsPreLabelValues = lv]
         /\ AfterPre("MockDownstreamServiceMetrics.LogMetricsPre", lv, NoRet, Start(dsm))
    /\ UNCHANGED <<dm, cjm, dsm, psm, rlm, cm, nPostTxn>>

MockDSLogMetricsPost ==
    /\ domain = "Downstream" /\ impl = "mock" /\ ~fault
    /\ \E p \in BagToSet(pending), success \in BOOLEAN, httpMetrics \in HTTPMetricsValues :
         /\ mock' = [mock EXCEPT !.LogMetricsPostCalled = TRUE,
                                 !.LogMetricsPostSuccess = success,
                                 !.LogMetricsPostLabelValues = p.lv,
                                 !.LogMetricsPostHTTPMetrics = httpMetrics]
         /\ AfterPost("MockDownstreamServiceMetrics.LogMetricsPost", p,
                      [success |-> success, lv |-> p.lv, httpMetrics |-> httpMetrics],
                      Start(dsm))
    /\ UNCHANGED <<dm, cjm, dsm, psm, rlm, cm, nPostTxn>>

MockPSLogMetricsPre ==
    /\ domain = "PubSub" /\ impl = "mock" /\ ~fault /\ nPre < MaxOps
    /\ \E lv \in PSLabelValues :
         /\ mock' = [mock EXCEPT !.LogMetricsPreCalled = TRUE,
                                 !.LogMetricsPreLabelValues = lv]
         /\ AfterPre("MockPSMetrics.LogMetricsPre", lv, TimeRet(now), Start(psm))
    /\ UNCHANGED <<dm, cjm, dsm, psm, rlm, cm, nPostTxn>>

MockPSLogMetricsPost ==
    /\ domain = "PubSub" /\ impl = "mock" /\ ~fault
    /\ \E p \in BagToSet(pending), ec \in PSErrorCodes, eventTxnData \in EventTxnDataValues :
         LET lv == [p.lv EXCEPT !.ErrorCode = ec]
         IN  /\ mock' = [mock EXCEPT !.LogMetricsPostCalled = TRUE,
                                     !.LogMetricsPostLabelValues = lv,
                                     !.LogMetricsPostEventTxnData = eventTxnData]
             /\ nPostTxn' = IF eventTxnData.nil THEN nPostTxn ELSE nPostTxn + 1
             /\ AfterPost("MockPSMetrics.LogMetricsPost", p,
                          [lv |-> lv, eventTxnData |-> eventTxnData], Start(psm))
    /\ UNCHANGED <<dm, cjm, dsm, psm, rlm, cm>>

MockAppLogMetrics ==
    /\ domain = "App" /\ impl = "mock" /\ ~fault /\ nCalls < MaxOps
    /\ \E errCodes \in ErrCodeLists :
         /\ mock' = [mock EXCEPT !.LogMetricsCalled = TRUE, !.LogMetricsErrCodes = errCodes]
         /\ AfterCall("MockAppMetrics.LogMetrics", [errCodes |-> errCodes], Start(cm))
    /\ UNCHANGED <<dm, cjm, dsm, psm, rlm, cm>>

MockAppDecrementAppErrorCount ==
    /\ domain = "App" /\ impl = "mock" /\ ~fault /\ nCalls < MaxOps
    /\ \E errCode \in AppErrorCodes :
         /\ mock' = [mock EXCEPT !.DecrementAppErrorCountCalled = TRUE,
                                 !.DecrementAppErrorCountErrCode = errCode]
         /\ AfterCall("MockAppMetrics.DecrementAppErrorCount", [errCode |-> errCode], Start(cm))
    /\ UNCHANGED <<dm, cjm, dsm, psm, rlm, cm>>

---------------------------------------------------------------------------
(* The Router middleware around one request: the part before gc.Next(),    *)
(* the downstream handler, the part after gc.Next() returned.              *)

\* Writer.Status() and Writer.Size() before the handler ran.
DefaultStatus == GoInt(200)
NoWritten == 0 - 1

RouterEnter ==
    /\ domain = "Router" /\ impl = "root" /\ ~fault /\ gc.nil /\ nCalls < MaxRequests
    /\ \E req \in Requests :
         LET c == [Request |-> req, FullPath |-> req.FullPath,
                   status |-> DefaultStatus, size |-> NoWritten]
             b == RouterMetrics_LogMetrics_Before(rlm, c, MetricsPath)
         IN  /\ rlm' = b.m.set
             /\ fault' = b.m.panic
             /\ gc' = [nil |-> FALSE, Request |-> c.Request, FullPath |-> c.FullPath,
                       status |-> c.status, size |-> c.size, pc |-> "next",
                       skip |-> b.skip, start |-> b.start, reqSize |-> b.reqSize,
                       urlPath |-> b.urlPath, nextCalls |-> 0, entry |-> req,
                       entered |-> now]
             /\ last' = [op |-> "RouterMetrics.LogMetrics.before", arg |-> [req |-> req],
                         ret |-> NoRet, panic |-> b.m.panic]
    /\ nCalls' = nCalls + 1
    /\ UNCHANGED <<domain, impl, dm, cjm, dsm, psm, cm, now, pending,
                   nPre, nPost, nPostTxn, phase, registry, logged, exposed, tally, mock, threads>>

\* gc.Next(): the downstream handler runs once; it sets the response status
\* and size, and may add a header to the request.
HandlerNext ==
    /\ domain = "Router" /\ ~fault /\ ~gc.nil /\ gc.pc = "next"
    /\ \E h \in HandlerOutcomes :
         gc' = [gc EXCEPT !.status = h.status, !.size = h.size,
                          !.Request.Header =
                              IF h.mutate THEN ("X-Request-Id" :> <<"42">>) @@ @ ELSE @,
                          !.pc = "after", !.nextCalls = @ + 1]
    /\ UNCHANGED <<domain, impl, dm, cjm, dsm, psm, rlm, cm, now, pending, last,
                   nPre, nPost, nPostTxn, nCalls, phase, fault,
                   registry, logged, exposed, tally, mock, threads>>

RouterExit ==
    /\ domain = "Router" /\ impl = "root" /\ ~fault /\ ~gc.nil /\ gc.pc = "after"
    /\ LET m == RouterMetrics_LogMetrics_After(rlm, gc, gc.skip, gc.start, gc.reqSize, gc.urlPath)
       IN  /\ rlm' = m.set
           /\ fault' = m.panic
           /\ last' = [op |-> "RouterMetrics.LogMetrics", arg |-> [gc EXCEPT !.pc = "done"],
                       ret |-> NoRet, panic |-> m.panic]
    /\ gc' = Nil
    /\ UNCHANGED <<domain, impl, dm, cjm, dsm, psm, cm, now, pending,
                   nPre, nPost, nPostTxn, nCalls, phase, registry, logged, exposed, tally, mock, threads>>

---------------------------------------------------------------------------
(* One process constructing metric sets of the prometheus subpackage, all  *)
(* on prometheus.DefaultRegisterer, and using the handles it was given.     *)

\* The configurations with every sub-metric enabled or every one disabled.
AllOrNone(metas) ==
    { meta \in metas : \A f, g \in DOMAIN meta : meta[f].nil = meta[g].nil }

\* A constructor returned set c.set, leaving the registerer and logger as c.r.
AfterNew(op, meta, c) ==
    /\ registry' = c.r.registry
    /\ logged' = c.r.logged
    /\ exposed' = c.r.exposed
    /\ last' = [op |-> op, arg |-> [meta |-> meta], ret |-> c.set, panic |-> FALSE]
    /\ nCalls' = nCalls + 1
    /\ UNCHANGED <<domain, impl, now, pending, gc, nPre, nPost, nPostTxn, phase, fault,
                   tally, mock, threads>>

ConstructPromDB ==
    /\ domain = "Registry" /\ ~fault /\ nCalls < MaxConstructions
    /\ \E meta \in AllOrNone(DBMetricsMetas) :
         LET c == NewPromDatabaseMetrics(Registerer, meta)
         IN  dm' = c.set /\ AfterNew("NewPromDatabaseMetrics", meta, c)
    /\ UNCHANGED <<cjm, dsm, psm, rlm, cm>>

ConstructPromCron ==
    /\ domain = "Registry" /\ ~fault /\ nCalls < MaxConstructions
    /\ \E meta \in AllOrNone(CronJobMetricsMetas) :
         LET c == NewPromCronJobMetrics(Registerer, meta)
         IN  cjm' = c.set /\ AfterNew("NewPromCronJobMetrics", meta, c)
    /\ UNCHANGED <<dm, dsm, psm, rlm, cm>>

ConstructPromDS ==
    /\ domain = "Registry" /\ ~fault /\ nCalls < MaxConstructions
    /\ \E meta \in AllOrNone(DownstreamServiceMetricsMetas) :
         LET c == NewPromDownstreamServiceMetrics(Registerer, meta)
         IN  dsm' = c.set /\ AfterNew("NewPromDownstreamServiceMetrics", meta, c)
    /\ UNCHANGED <<dm, cjm, psm, rlm, cm>>

ConstructPromPS ==
    /\ domain = "Registry" /\ ~fault /\ nCalls < MaxConstructions
    /\ \E meta \in AllOrNone(PSMetricsMetas) :
         LET c == NewPromPubSubMetrics(Registerer, meta)
         IN  psm' = c.set /\ AfterNew("NewPromPubSubMetrics", meta, c)
    /\ UNCHANGED <<dm, cjm, dsm, rlm, cm>>

ConstructPromApp ==
    /\ domain = "Registry" /\ ~fault /\ nCalls < MaxConstructions
    /\ \E meta \in AppMetricsMetas :
         LET c == NewPromAppMetrics(Registerer, meta)
         IN  cm' = c.set /\ AfterNew("NewPromAppMetrics", meta, c)
    /\ UNCHANGED <<dm, cjm, dsm, psm, rlm>>

\* NewNoOpProm...Metrics(): return &NoOpProm...Metrics{}, for each of the six
\* domains.
ConstructNoOp ==
    /\ domain = "Registry" /\ ~fault /\ nCalls < MaxConstructions
    /\ \E d \in {"Router", "Database", "Downstream", "CronJob", "PubSub", "App"} :
         last' = [op |-> "NewNoOp", arg |-> [domain |-> d], ret |-> NoRet, panic |-> FALSE]
    /\ nCalls' = nCalls + 1
    /\ UNCHANGED <<domain, impl, dm, cjm, dsm, psm, rlm, cm, now, pending, gc,
                   nPre, nPost, nPostTxn, phase, fault, registry, logged, exposed, tally, mock, threads>>

\* The application asks the adapter for a summary of its own and observes a
\* value on the handle it gets.
ObserveSummary ==
    /\ domain = "Registry" /\ ~fault /\ nCalls < MaxConstructions
    /\ LET meta == [Name |-> "request_duration_seconds", Labels |-> <<"path">>]
           g == GetPromSummaryVec(Registerer,
                                  Namespace, meta.Name, meta.Labels)
           m == Observe(Start([summary |-> g.vec]), "summary", <<"/api/users">>, Float64(1))
       IN  /\ fault' = m.panic
           /\ registry' = g.r.registry
           /\ logged' = g.r.logged
           /\ exposed' =
                 IF FQName(Namespace, meta.Name) \in g.r.exposed.held
                 THEN [g.r.exposed EXCEPT
                          !.collectors[FQName(Namespace, meta.Name)] = m.set.summary]
                 ELSE g.r.exposed
           /\ last' = [op |-> "GetPromSummaryVec", arg |-> [meta |-> meta],
                       ret |-> m.set.summary, panic |-> m.panic]
    /\ nCalls' = nCalls + 1
    /\ UNCHANGED <<domain, impl, dm, cjm, dsm, psm, rlm, cm, now, pending, gc,
                   nPre, nPost, nPostTxn, phase, tally, mock, threads>>

---------------------------------------------------------------------------
(* A call of the bucket generator with arguments it accepts.  The floats    *)
(* are whole numbers, which float64 multiplies without rounding.            *)

BucketStarts == {1, 10}
BucketFactors == {2, 3}

GenerateBuckets ==
    /\ domain = "Buckets" /\ ~fault /\ nCalls < 1
    /\ \E start \in BucketStarts, factor \in BucketFactors, count \in 1..MaxBuckets :
         LET b == GetPromExponentialBuckets(start, factor, count)
         IN  /\ fault' = b.panic
             /\ last' = [op |-> "GetPromExponentialBuckets",
                         arg |-> [start |-> start, factor |-> factor, count |-> count],
                         ret |-> b.buckets, panic |-> b.panic]
    /\ nCalls' = nCalls + 1
    /\ UNCHANGED <<domain, impl, dm, cjm, dsm, psm, rlm, cm, now, pending, gc,
                   nPre, nPost, nPostTxn, phase, registry, logged, exposed, tally, mock, threads>>

\* A request without a URL; it carries two headers, one with two values.
NoURLRequest ==
    [URL |-> [nil |-> TRUE, Path |-> ""], FullPath |-> "",
     Method |-> "PUT", Proto |-> "HTTP/1.1",
     Header |-> ("Accept" :> <<"text/html", "*/*">>) @@ ("X-Id" :> <<"7">>),
     Host |-> "", ContentLength |-> 3]

\* A call of computeApproximateRequestSize on a request.
ComputeRequestSize ==
    /\ domain = "RequestSize" /\ ~fault /\ nCalls < 1
    /\ \E r \in Requests \cup {NoURLRequest, [NoURLRequest EXCEPT !.ContentLength = 0 - 1]} :
         last' = [op |-> "computeApproximateRequestSize", arg |-> r,
                  ret |-> computeApproximateRequestSize(r), panic |-> FALSE]
    /\ nCalls' = nCalls + 1
    /\ UNCHANGED <<domain, impl, dm, cjm, dsm, psm, rlm, cm, now, pending, gc,
                   nPre, nPost, nPostTxn, phase, fault, registry, logged, exposed, tally, mock, threads>>

\* MockRouterMetrics.LogMetrics(metricsPath): records the call and returns the
\* pass-through middleware.
MockRouterLogMetrics ==
    /\ domain = "Router" /\ impl = "mock" /\ ~fault /\ gc.nil /\ nPre < MaxOps
    /\ \E metricsPath \in {MetricsPath, "/internal/metrics"} :
         /\ mock' = [mock EXCEPT !.LogMetricsCalled = TRUE, !.LogMetricsPath = metricsPath]
         /\ last' = [op |-> "MockRouterMetrics.LogMetrics",
                     arg |-> [metricsPath |-> metricsPath], ret |-> NoRet, panic |-> FALSE]
    /\ nPre' = nPre + 1
    /\ UNCHANGED <<domain, impl, dm, cjm, dsm, psm, rlm, cm, now, pending, gc,
                   nPost, nPostTxn, nCalls, phase, fault, registry, logged, exposed, tally, threads>>

\* func(c *gin.Context) { c.Next() }, the middleware of the No-Op and of the
\* Mock variant, up to its call of c.Next().
PassThroughEnter ==
    /\ domain = "Router" /\ ~fault /\ gc.nil /\ nCalls < MaxRequests
    /\ impl = "noop" \/ (impl = "mock" /\ mock.LogMetricsCalled)
    /\ \E req \in Requests :
         /\ gc' = [nil |-> FALSE, Request |-> req, FullPath |-> req.FullPath,
                   status |-> DefaultStatus, size |-> NoWritten, pc |-> "next",
                   nextCalls |-> 0, entry |-> req, entered |-> now]
         /\ last' = [op |-> "PassThrough.before", arg |-> [req |-> req],
                     ret |-> NoRet, panic |-> FALSE]
    /\ nCalls' = nCalls + 1
    /\ UNCHANGED <<domain, impl, dm, cjm, dsm, psm, rlm, cm, now, pending,
                   nPre, nPost, nPostTxn, phase, fault, registry, logged, exposed, tally, mock, threads>>

\* The pass-through middleware returns once c.Next() has.
PassThroughExit ==
    /\ domain = "Router" /\ impl \in {"noop", "mock"} /\ ~fault /\ ~gc.nil /\ gc.pc = "after"
    /\ last' = [op |-> "PassThrough", arg |-> [gc EXCEPT !.pc = "done"],
                ret |-> NoRet, panic |-> FALSE]
    /\ gc' = Nil
    /\ UNCHANGED <<domain, impl, dm, cjm, dsm, psm, rlm, cm, now, pending,
                   nPre, nPost, nPostTxn, nCalls, phase, fault, registry, logged, exposed, tally,
                   mock, threads>>

---------------------------------------------------------------------------

Next ==
    \/ Tick
    \/ DBLogMetricsPre \/ DBLogMetricsPost
    \/ CronLogMetricsPre \/ CronLogMetricsPost
    \/ PromDBLogMetricsPre \/ PromDBLogMetricsPost
    \/ PromCronLogMetricsPre \/ PromCronLogMetricsPost
    \/ DSLogMetricsPre \/ DSLogMetricsPost
    \/ PromDSLogMetricsPre \/ PromDSLogMetricsPost
    \/ PSLogMetricsPre \/ PSLogMetricsPost
    \/ PromPSLogMetricsPre \/ PromPSLogMetricsPost
    \/ AppLogMetrics \/ AppDecrementAppErrorCount
    \/ PromAppLogMetrics \/ PromAppDecrementAppErrorCount
    \/ NoOpAppLogMetrics \/ NoOpAppDecrementAppErrorCount
    \/ RouterEnter \/ HandlerNext \/ RouterExit
    \/ NoOpDBLogMetricsPre \/ NoOpDBLogMetricsPost
    \/ NoOpCronLogMetricsPre \/ NoOpCronLogMetricsPost
    \/ NoOpDSLogMetricsPre \/ NoOpDSLogMetricsPost
    \/ NoOpPSLogMetricsPre \/ NoOpPSLogMetricsPost
    \/ MockDBLogMetricsPre \/ MockDBLogMetricsPost
    \/ MockCronLogMetricsPre \/ MockCronLogMetricsPost
    \/ MockDSLogMetricsPre \/ MockDSLogMetricsPost
    \/ MockPSLogMetricsPre \/ MockPSLogMetricsPost
    \/ MockAppLogMetrics \/ MockAppDecrementAppErrorCount
    \/ MockRouterLogMetrics \/ PassThroughEnter \/ PassThroughExit
    \/ ConstructPromDB \/ ConstructPromCron \/ ConstructPromDS
    \/ ConstructPromPS \/ ConstructPromApp \/ ObserveSummary
    \/ ConstructNoOp \/ GenerateBuckets \/ ComputeRequestSize
    \/ GoDBLogMetricsPre \/ GoDBLogMetricsPostInc \/ GoDBLogMetricsPostObserve
    \/ GoCronLogMetricsPre \/ GoCronLogMetricsPostInc \/ GoCronLogMetricsPostObserve

Spec == Init /\ [][Next]_vars

---------------------------------------------------------------------------
(* Helpers of the properties. *)

\* The position of the status label among a counter's label names.
StatusPos(vec) == CHOOSE i \in 1..Len(vec.labels) : vec.labels[i] = "status"

TotalSum(vec) == StatusSum(vec, StatusPos(vec), {Total})
OutcomeSum(vec) == StatusSum(vec, StatusPos(vec), {Success, Failure})

\* The call was given the arguments it takes by pointer: its label values
\* and, for a Downstream Service LogMetricsPost, its HTTPMetrics.
Given(arg) ==
    /\ "lv" \in DOMAIN arg => arg.lv # Nil
    /\ "httpMetrics" \in DOMAIN arg => arg.httpMetrics # Nil

\* The vector gained exactly the one sample x, and nothing else changed.
Gained(old, new, x) == new.samples = old.samples (+) SetToBag({x})

\* N LogMetricsPre calls of a live metric set were followed by N
\* LogMetricsPost calls with matching label values, and none is outstanding;
\* the run is of that one metric set, so that nPre and nPost count its calls.
PresThenPosts ==
    /\ impl \in {"root", "prom"}
    /\ domain \in {"Database", "CronJob", "Downstream", "PubSub"}
    /\ ~fault /\ phase # "mixed" /\ pending = EmptyBag /\ nPost = nPre

Balanced(vec, n) == ~vec.nil => TotalSum(vec) = n /\ OutcomeSum(vec) = n

---------------------------------------------------------------------------
(* C1 *)

\* C1 (as stated): after N LogMetricsPre calls followed by N matching
\* LogMetricsPost calls, every configured total/success/failure counter
\* (Database, Cron Job, Downstream Service, Pub/Sub published, Pub/Sub
\* consumed) has "total" sum N and "success" + "failure" sum N.
C1_BalancedAfterPrePost ==
    PresThenPosts =>
        /\ Balanced(dm.operationsTotal, nPre)
        /\ Balanced(cjm.jobExecutionTotal, nPre)
        /\ Balanced(dsm.httpRequests, nPre)
        /\ Balanced(psm.totalMessagesPublished, nPre)
        /\ Balanced(psm.totalMessagesConsumed, nPre)

\* C1 (amended): as above for the Database, Cron Job, Downstream Service and
\* Pub/Sub consumed counters; the Pub/Sub published counter has "total" sum N
\* and a "success" + "failure" sum equal to the number of the N
\* LogMetricsPost calls that carried transaction data.
C1_BalancedExceptPublished ==
    PresThenPosts =>
        /\ Balanced(dm.operationsTotal, nPre)
        /\ Balanced(cjm.jobExecutionTotal, nPre)
        /\ Balanced(dsm.httpRequests, nPre)
        /\ Balanced(psm.totalMessagesConsumed, nPre)
        /\ ~psm.totalMessagesPublished.nil =>
              /\ TotalSum(psm.totalMessagesPublished) = nPre
              /\ OutcomeSum(psm.totalMessagesPublished) = nPostTxn

\* Two Pub/Sub Pre calls, then their two Post calls, one of them without
\* transaction data, with both counters configured.
C1_Witness ==
    /\ domain = "PubSub" /\ PresThenPosts /\ phase = "post"
    /\ nPre = 2 /\ nPostTxn = 1
    /\ ~psm.totalMessagesPublished.nil /\ ~psm.totalMessagesConsumed.nil
    /\ OutcomeSum(psm.totalMessagesConsumed) = 2

---------------------------------------------------------------------------
(* C2 *)

NothingRecorded(vec) == vec.nil => vec.samples = EmptyBag

\* C2 (as stated): whatever sub-metrics the configuration left nil, no
\* logging call faults, and a disabled sub-metric records no observation.
C2_NilSubMetricsNeverFault ==
    /\ ~fault
    /\ ~last.panic
    /\ NothingRecorded(dm.operationsTotal) /\ NothingRecorded(dm.operationsLatencyMillis)
    /\ NothingRecorded(cjm.jobExecutionTotal) /\ NothingRecorded(cjm.jobExecutionLatencyMillis)
    /\ NothingRecorded(dsm.httpRequests) /\ NothingRecorded(dsm.httpRequestsLatencyMillis)
    /\ NothingRecorded(dsm.httpRequestSizeBytes) /\ NothingRecorded(dsm.httpResponseSizeBytes)
    /\ NothingRecorded(psm.totalMessagesConsumed) /\ NothingRecorded(psm.totalMessagesPublished)
    /\ NothingRecorded(psm.messagesPublishedLatencyMillis)
    /\ NothingRecorded(psm.messagesPublishedSizeBytes)
    /\ NothingRecorded(rlm.httpRequests) /\ NothingRecorded(rlm.httpRequestsLatencyMillis)
    /\ NothingRecorded(rlm.httpRequestSizeBytes) /\ NothingRecorded(rlm.httpResponseSizeBytes)
    /\ cm.applicationErrorsCounter.nil => DOMAIN cm.applicationErrorsCounter.vals = {}

---------------------------------------------------------------------------
(* C3 *)

---------------------------------------------------------------------------
(* C4 *)

C4_Step ==
    /\ (last'.op = "DBMetrics.LogMetricsPost" /\ nPost' = nPost + 1 /\ ~dm.operationsTotal.nil)
          => LET lv == last'.arg.lv
             IN  /\ Gained(dm.operationsTotal, dm'.operationsTotal,
                           <<lv.OpType, lv.Source, lv.AdEntity, lv.IsTxn,
                             IF last'.arg.appErr.nil THEN Success ELSE Failure>>)
                 /\ TotalSum(dm'.operationsTotal) = TotalSum(dm.operationsTotal)
                 /\ OutcomeSum(dm'.operationsTotal) = OutcomeSum(dm.operationsTotal) + 1
    /\ (last'.op = "CronJobMetrics.LogMetricsPost" /\ nPost' = nPost + 1 /\ ~cjm.jobExecutionTotal.nil)
          => LET lv == last'.arg.lv
             IN  /\ Gained(cjm.jobExecutionTotal, cjm'.jobExecutionTotal,
                           <<lv.JobName, IF last'.arg.appErr.nil THEN Success ELSE Failure>>)
                 /\ TotalSum(cjm'.jobExecutionTotal) = TotalSum(cjm.jobExecutionTotal)
                 /\ OutcomeSum(cjm'.jobExecutionTotal) = OutcomeSum(cjm.jobExecutionTotal) + 1

\* C4: with the counter configured, each Database or Cron Job LogMetricsPost
\* increments exactly one counter series by one: the "success" series iff the
\* error is nil, else the "failure" series; never the "total" series, never
\* both.
C4_PostIncrementsOneOutcome == [][C4_Step]_vars

\* A Database LogMetricsPost with a non-nil error was recorded as a failure.
C4_Witness ==
    /\ last.op = "DBMetrics.LogMetricsPost"
    /\ ~last.arg.appErr.nil
    /\ ~dm.operationsTotal.nil
    /\ StatusSum(dm.operationsTotal, 5, {Failure}) = 1
    /\ StatusSum(dm.operationsTotal, 5, {Success}) = 0

---------------------------------------------------------------------------
(* The Router middleware's three steps, as the properties see them. *)

\* The middleware is entered for a request.
RouterEnters == impl = "root" /\ gc.nil /\ ~gc'.nil
\* The downstream handler runs.
RouterHandles == impl = "root" /\ ~gc.nil /\ ~gc'.nil /\ gc.pc = "next" /\ gc'.pc = "after"
\* The middleware returns.
RouterReturns == impl = "root" /\ ~gc.nil /\ gc'.nil

\* The request addressed the metrics endpoint itself.
ToMetricsPath(req) == req.URL.Path = MetricsPath

\* The final status is one of 200..299.
In2XX(status) == \E k \in 200..299 : status = GoInt(k)

\* The vector gained exactly one sample, which satisfies P.
GainedOne(old, new, P(_)) == \E x \in BagToSet(new.samples) : Gained(old, new, x) /\ P(x)

---------------------------------------------------------------------------
(* C5 *)

C5_Step ==
    (RouterReturns /\ ~ToMetricsPath(gc.entry) /\ ~rlm.httpRequests.nil) =>
        LET Classified(x) == x[4] = (IF In2XX(gc.status) THEN Success ELSE Failure)
        IN  GainedOne(rlm.httpRequests, rlm'.httpRequests, Classified)

\* C5: the Router middleware classifies a request as "success" iff the final
\* response status is in 200..299; every other status, one that cannot be
\* parsed as a 32-bit integer included, is classified as "failure".
C5_RouterClassification == [][C5_Step]_vars

\* A request ended with a status beyond 32 bits and was counted as a failure.
C5_Witness ==
    /\ last.op = "RouterMetrics.LogMetrics"
    /\ last.arg.status = WideStatus
    /\ ~ToMetricsPath(last.arg.entry)
    /\ ~rlm.httpRequests.nil
    /\ StatusSum(rlm.httpRequests, 4, {Failure}) = 1
    /\ StatusSum(rlm.httpRequests, 4, {Success}) = 0

---------------------------------------------------------------------------
(* C6 *)

C6_Step ==
    /\ RouterEnters =>
          /\ gc'.nextCalls = 0
          /\ ToMetricsPath(gc'.entry) => rlm' = rlm
          /\ (~ToMetricsPath(gc'.entry) /\ ~rlm.httpRequests.nil) =>
                TotalSum(rlm'.httpRequests) = TotalSum(rlm.httpRequests) + 1
    /\ RouterHandles => gc'.nextCalls = gc.nextCalls + 1 /\ rlm' = rlm
    /\ RouterReturns =>
          /\ gc.nextCalls = 1
          /\ ToMetricsPath(gc.entry) => rlm' = rlm
          /\ ~ToMetricsPath(gc.entry) =>
                /\ ~rlm.httpRequests.nil =>
                      OutcomeSum(rlm'.httpRequests) = OutcomeSum(rlm.httpRequests) + 1
                /\ ~rlm.httpRequestsLatencyMillis.nil =>
                      ObsCount(rlm'.httpRequestsLatencyMillis) = ObsCount(rlm.httpRequestsLatencyMillis) + 1
                /\ ~rlm.httpRequestSizeBytes.nil =>
                      ObsCount(rlm'.httpRequestSizeBytes) = ObsCount(rlm.httpRequestSizeBytes) + 1
                /\ ~rlm.httpResponseSizeBytes.nil =>
                      ObsCount(rlm'.httpResponseSizeBytes) = ObsCount(rlm.httpResponseSizeBytes) + 1

\* C6: for a request whose URL path equals metricsPath the Router middleware
\* records nothing at all and still calls the next handler exactly once; a
\* request to any other path is instrumented (counted at entry, and counted
\* and observed at return, on each configured metric).
C6_MetricsPathSkipped == [][C6_Step]_vars

\* A request to the metrics path went through the middleware with every metric
\* configured: the handler ran once and nothing was recorded.
C6_Witness ==
    /\ last.op = "RouterMetrics.LogMetrics"
    /\ ToMetricsPath(last.arg.entry)
    /\ last.arg.nextCalls = 1
    /\ ~rlm.httpRequests.nil /\ ~rlm.httpRequestsLatencyMillis.nil
    /\ ~rlm.httpRequestSizeBytes.nil /\ ~rlm.httpResponseSizeBytes.nil
    /\ rlm.httpRequests.samples = EmptyBag
    /\ rlm.httpRequestsLatencyMillis.samples = EmptyBag
    /\ rlm.httpRequestSizeBytes.samples = EmptyBag
    /\ rlm.httpResponseSizeBytes.samples = EmptyBag

---------------------------------------------------------------------------
(* C7 *)

C7_Step ==
    /\ (RouterEnters /\ ~ToMetricsPath(gc'.entry)) =>
          /\ gc'.nextCalls = 0
          /\ ~rlm.httpRequests.nil =>
                Gained(rlm.httpRequests, rlm'.httpRequests,
                       <<gc'.entry.Method, <<>>, gc'.entry.FullPath, Total>>)
          /\ rlm'.httpRequestsLatencyMillis = rlm.httpRequestsLatencyMillis
          /\ rlm'.httpRequestSizeBytes = rlm.httpRequestSizeBytes
          /\ rlm'.httpResponseSizeBytes = rlm.httpResponseSizeBytes
    /\ RouterHandles => rlm' = rlm
    /\ (RouterReturns /\ ~ToMetricsPath(gc.entry)) =>
          LET lbl == <<gc.Request.Method, Itoa(gc.status), gc.FullPath>>
              Outcome(x) == x \in {Append(lbl, Success), Append(lbl, Failure)}
              Labelled(x) == x[1] = lbl
          IN  /\ gc.nextCalls = 1
              /\ ~rlm.httpRequests.nil =>
                    GainedOne(rlm.httpRequests, rlm'.httpRequests, Outcome)
              /\ ~rlm.httpRequestsLatencyMillis.nil =>
                    GainedOne(rlm.httpRequestsLatencyMillis, rlm'.httpRequestsLatencyMillis, Labelled)
              /\ ~rlm.httpResponseSizeBytes.nil =>
                    GainedOne(rlm.httpResponseSizeBytes, rlm'.httpResponseSizeBytes, Labelled)
              /\ ~rlm.httpRequestSizeBytes.nil =>
                    Gained(rlm.httpRequestSizeBytes, rlm'.httpRequestSizeBytes,
                           <<lbl, Float64(computeApproximateRequestSize(gc.entry))>>)

\* C7: for an instrumented request the Router middleware increments the
\* "total" series, with an empty code label, before the downstream handler
\* runs and records nothing else until the handler has returned; then it
\* records exactly one "success" or "failure" increment and exactly one
\* observation on each configured histogram, all labelled with the final
\* status code, and the request size it observes is the size the request had
\* before the handler ran.
C7_TotalBeforeOutcomeAfter == [][C7_Step]_vars

\* An instrumented request whose handler added a header to it came back, with
\* every metric configured.
C7_Witness ==
    /\ last.op = "RouterMetrics.LogMetrics"
    /\ ~ToMetricsPath(last.arg.entry)
    /\ last.arg.Request # last.arg.entry
    /\ ~rlm.httpRequests.nil
    /\ TotalSum(rlm.httpRequests) = 1 /\ OutcomeSum(rlm.httpRequests) = 1
    /\ ~rlm.httpRequestsLatencyMillis.nil /\ ObsCount(rlm.httpRequestsLatencyMillis) = 1
    /\ ~rlm.httpRequestSizeBytes.nil /\ ObsCount(rlm.httpRequestSizeBytes) = 1
    /\ ~rlm.httpResponseSizeBytes.nil /\ ObsCount(rlm.httpResponseSizeBytes) = 1

---------------------------------------------------------------------------
(* C8 *)

PSPreOps == {"PSMetrics.LogMetricsPre", "PromPSMetrics.LogMetricsPre"}
PSPostOps == {"PSMetrics.LogMetricsPost", "PromPSMetrics.LogMetricsPost"}

C8_Step ==
    (last'.op \in PSPreOps /\ nPre' = nPre + 1 /\ Given(last'.arg)) =>
        LET lv == last'.arg.lv
        IN  /\ ~psm.totalMessagesPublished.nil =>
                  Gained(psm.totalMessagesPublished, psm'.totalMessagesPublished,
                         <<lv.Entity, lv.EntityOpType, Total>>)
            /\ ~psm.totalMessagesConsumed.nil =>
                  Gained(psm.totalMessagesConsumed, psm'.totalMessagesConsumed,
                         <<lv.Source, lv.Entity, lv.EntityOpType, Total, "">>)

\* C8: every Pub/Sub LogMetricsPre call (PSMetrics and PromPSMetrics)
\* increments the published "total" series and the consumed "total" series,
\* each if configured, and the consumed "total" series always carries an
\* empty error-code label, whatever error code the caller's label values hold.
C8_PreIncrementsBothTotals == [][C8_Step]_vars

\* LogMetricsPre was called with a non-empty error code and both counters
\* configured.
C8_Witness ==
    /\ last.op = "PSMetrics.LogMetricsPre"
    /\ Given(last.arg) /\ last.arg.lv.ErrorCode # ""
    /\ ~psm.totalMessagesPublished.nil /\ ~psm.totalMessagesConsumed.nil
    /\ TotalSum(psm.totalMessagesPublished) = 1
    /\ TotalSum(psm.totalMessagesConsumed) = 1

---------------------------------------------------------------------------
(* C9 *)

\* A non-negative duration in whole milliseconds.
WholeMillis(d) == d \div Millisecond

C9_Step ==
    (last'.op \in PSPostOps /\ nPost' = nPost + 1 /\ Given(last'.arg)) =>
        LET lv  == last'.arg.lv
            txn == last'.arg.eventTxnData
        IN  /\ txn.nil =>
                  /\ psm'.totalMessagesPublished = psm.totalMessagesPublished
                  /\ psm'.messagesPublishedLatencyMillis = psm.messagesPublishedLatencyMillis
                  /\ psm'.messagesPublishedSizeBytes = psm.messagesPublishedSizeBytes
            /\ ~txn.nil =>
                  /\ ~psm.totalMessagesPublished.nil =>
                        Gained(psm.totalMessagesPublished, psm'.totalMessagesPublished,
                               <<lv.Entity, lv.EntityOpType,
                                 IF txn.IsPublished THEN Success ELSE Failure>>)
                  /\ ~psm.messagesPublishedLatencyMillis.nil =>
                        Gained(psm.messagesPublishedLatencyMillis,
                               psm'.messagesPublishedLatencyMillis,
                               <<<<lv.Entity, lv.EntityOpType>>,
                                 Float64(WholeMillis(txn.TimeTakenToPublish))>>)
                  /\ ~psm.messagesPublishedSizeBytes.nil =>
                        Gained(psm.messagesPublishedSizeBytes, psm'.messagesPublishedSizeBytes,
                               <<<<lv.Entity, lv.EntityOpType>>,
                                 Float64(txn.MessageSizeInBytes)>>)
            /\ ~psm.totalMessagesConsumed.nil =>
                  OutcomeSum(psm'.totalMessagesConsumed) = OutcomeSum(psm.totalMessagesConsumed) + 1

\* C9: a Pub/Sub LogMetricsPost call records on the publish side iff its
\* transaction data is non-null. With null data it leaves the published
\* counter and the publish latency and size histograms alone, and still
\* records the consume-side increment; with data it increments published
\* "success" iff isPublished, else "failure", and observes timeTakenToPublish
\* in milliseconds and messageSizeInBytes, each if configured.
C9_PublishSideNeedsTxnData == [][C9_Step]_vars

\* LogMetricsPost was called without transaction data, every metric being
\* configured: only the consumed counter moved.
C9_Witness ==
    /\ last.op = "PSMetrics.LogMetricsPost"
    /\ last.arg.eventTxnData.nil
    /\ ~psm.totalMessagesPublished.nil /\ ~psm.totalMessagesConsumed.nil
    /\ ~psm.messagesPublishedLatencyMillis.nil /\ ~psm.messagesPublishedSizeBytes.nil
    /\ nPost = 1
    /\ OutcomeSum(psm.totalMessagesPublished) = 0
    /\ ObsCount(psm.messagesPublishedLatencyMillis) = 0
    /\ ObsCount(psm.messagesPublishedSizeBytes) = 0
    /\ OutcomeSum(psm.totalMessagesConsumed) = 1

---------------------------------------------------------------------------
(* C10 *)

C10_Step ==
    (last'.op \in PSPostOps /\ nPost' = nPost + 1 /\ ~psm.totalMessagesConsumed.nil) =>
        LET lv == last'.arg.lv
        IN  Gained(psm.totalMessagesConsumed, psm'.totalMessagesConsumed,
                   IF lv.ErrorCode # ""
                   THEN <<lv.Source, lv.Entity, lv.EntityOpType, Failure, lv.ErrorCode>>
                   ELSE <<lv.Source, lv.Entity, lv.EntityOpType, Success, "">>)

\* C10: with the consumed counter configured, every Pub/Sub LogMetricsPost
\* call increments exactly one consumed series: "failure" with the given
\* error code when the error code is non-empty, "success" with an empty error
\* code when it is empty, whether or not transaction data was supplied.
C10_ConsumedOutcomeByErrorCode == [][C10_Step]_vars

\* A publish that succeeded was posted with an error code: the consumed
\* counter recorded a failure under that code.
C10_Witness ==
    /\ last.op = "PromPSMetrics.LogMetricsPost"
    /\ ~last.arg.eventTxnData.nil /\ last.arg.eventTxnData.IsPublished
    /\ last.arg.lv.ErrorCode = "ERR_PROCESSING"
    /\ ~psm.totalMessagesConsumed.nil
    /\ StatusSum(psm.totalMessagesConsumed, 4, {Failure}) = 1

---------------------------------------------------------------------------
(* C11 *)

DSPreOps == {"DownstreamServiceMetrics.LogMetricsPre",
             "PromDownstreamServiceMetrics.LogMetricsPre"}
DSPostOps == {"DownstreamServiceMetrics.LogMetricsPost",
              "PromDownstreamServiceMetrics.LogMetricsPost"}

C11_Step ==
    /\ (last'.op \in DSPreOps /\ nPre' = nPre + 1 /\ ~dsm.httpRequests.nil
          /\ Given(last'.arg))
          => LET lv == last'.arg.lv
             IN  /\ Gained(dsm.httpRequests, dsm'.httpRequests,
                           <<lv.Name, lv.HTTPMethod, <<>>, lv.APIIdentifier, Total>>)
                 /\ OutcomeSum(dsm'.httpRequests) = OutcomeSum(dsm.httpRequests)
    /\ (last'.op \in DSPostOps /\ nPost' = nPost + 1 /\ ~dsm.httpRequests.nil
          /\ Given(last'.arg))
          => LET lv == last'.arg.lv
                 hm == last'.arg.httpMetrics
             IN  /\ Gained(dsm.httpRequests, dsm'.httpRequests,
                           <<lv.Name, hm.Method, Itoa(hm.Code), lv.APIIdentifier,
                             IF last'.arg.success THEN Success ELSE Failure>>)
                 /\ TotalSum(dsm'.httpRequests) = TotalSum(dsm.httpRequests)
                 /\ OutcomeSum(dsm'.httpRequests) = OutcomeSum(dsm.httpRequests) + 1

\* C11: with the request counter configured, a Downstream LogMetricsPre
\* increments only the "total" series, with an empty code label; a Downstream
\* LogMetricsPost increments exactly one outcome series, labelled with the
\* response code in decimal, "success" iff the caller's boolean is true and
\* "failure" otherwise, whatever the code is.  Root and prometheus
\* implementations alike.
C11_OutcomeFromCallerBoolean == [][C11_Step]_vars

\* A prometheus Downstream LogMetricsPost with success = true and code 500 was
\* recorded in the "success" series labelled "500".
C11_Witness ==
    /\ last.op = "PromDownstreamServiceMetrics.LogMetricsPost"
    /\ last.arg.success /\ Given(last.arg)
    /\ last.arg.httpMetrics.Code = GoInt(500)
    /\ ~dsm.httpRequests.nil
    /\ CopiesIn(<<last.arg.lv.Name, "POST", <<"5", "0", "0">>, last.arg.lv.APIIdentifier, Success>>,
                dsm.httpRequests.samples) = 1
    /\ StatusSum(dsm.httpRequests, 5, {Failure}) = 0

---------------------------------------------------------------------------
(* C12 *)

\* The latency histogram gained exactly one observation, of value v.
ObservedOnce(old, new, v) ==
    GainedOne(old, new, LAMBDA x : x[2] = v) /\ ObsCount(new) = ObsCount(old) + 1

\* The operation a LogMetricsPost step ends: the caller's label values and the
\* time of its LogMetricsPre.
Ended(p) == p \in BagToSet(pending) /\ pending' = pending (-) SetToBag({p})

\* Whole milliseconds of the time between the operation's Pre and this Post.
SincePre(p) == Float64(Milliseconds(now - p.start))

\* The LogMetricsPost calls that were given their arguments.
DBPosts ==
    /\ last'.op \in {"DBMetrics.LogMetricsPost", "PromDBMetrics.LogMetricsPost"}
    /\ nPost' = nPost + 1 /\ Given(last'.arg)
CronPosts ==
    /\ last'.op \in {"CronJobMetrics.LogMetricsPost", "PromCronJobMetrics.LogMetricsPost"}
    /\ nPost' = nPost + 1 /\ Given(last'.arg)
DSPosts == last'.op \in DSPostOps /\ nPost' = nPost + 1 /\ Given(last'.arg)
PSPosts == last'.op \in PSPostOps /\ nPost' = nPost + 1 /\ Given(last'.arg)

C12_DBCronStep ==
    /\ (DBPosts /\ ~dm.operationsLatencyMillis.nil) =>
          \E p \in BagToSet(pending) :
             /\ Ended(p) /\ last'.arg.opsExecTime = p.start
             /\ ObservedOnce(dm.operationsLatencyMillis, dm'.operationsLatencyMillis, SincePre(p))
    /\ (CronPosts /\ ~cjm.jobExecutionLatencyMillis.nil) =>
          \E p \in BagToSet(pending) :
             /\ Ended(p) /\ last'.arg.opsExecTime = p.start
             /\ ObservedOnce(cjm.jobExecutionLatencyMillis, cjm'.jobExecutionLatencyMillis,
                             SincePre(p))

C12_OriginalStep ==
    /\ C12_DBCronStep
    /\ (DSPosts /\ ~dsm.httpRequestsLatencyMillis.nil) =>
          \E p \in BagToSet(pending) :
             /\ Ended(p)
             /\ ObservedOnce(dsm.httpRequestsLatencyMillis, dsm'.httpRequestsLatencyMillis,
                             SincePre(p))
    /\ (PSPosts /\ ~psm.messagesPublishedLatencyMillis.nil) =>
          \E p \in BagToSet(pending) :
             /\ Ended(p)
             /\ ObservedOnce(psm.messagesPublishedLatencyMillis,
                             psm'.messagesPublishedLatencyMillis, SincePre(p))

C12_AmendedStep ==
    /\ C12_DBCronStep
    /\ (DSPosts /\ ~dsm.httpRequestsLatencyMillis.nil) =>
          ObservedOnce(dsm.httpRequestsLatencyMillis, dsm'.httpRequestsLatencyMillis,
                       Float64(Milliseconds(last'.arg.httpMetrics.ResponseTime)))
    /\ (PSPosts /\ ~psm.messagesPublishedLatencyMillis.nil) =>
          IF last'.arg.eventTxnData.nil
          THEN psm'.messagesPublishedLatencyMillis = psm.messagesPublishedLatencyMillis
          ELSE ObservedOnce(psm.messagesPublishedLatencyMillis,
                            psm'.messagesPublishedLatencyMillis,
                            Float64(Milliseconds(last'.arg.eventTxnData.TimeTakenToPublish)))

---------------------------------------------------------------------------
(* C13 *)

\* The observed value v (a float64 of milliseconds) is the duration d
\* truncated toward zero to whole milliseconds.
TruncatedMillis(v, d) ==
    /\ v % Millisecond = 0
    /\ IF d >= 0 THEN v <= d /\ d < v + Millisecond
                 ELSE v - Millisecond < d /\ d <= v

\* A latency value as the claim wants it, d being the duration measured.
WholeNonNegative(v, d) == TruncatedMillis(v, d) /\ v >= 0

\* The values of the observations the histogram gained in this step.
NewValues(old, new) ==
    { x[2] : x \in { y \in BagToSet(new.samples) : CopiesIn(y, new.samples) > CopiesIn(y, old.samples) } }

\* The Router middleware returns from an instrumented request.
RouterObserves == RouterReturns /\ ~ToMetricsPath(gc.entry)

C13_OriginalStep ==
    /\ DBPosts =>
          \A v \in NewValues(dm.operationsLatencyMillis, dm'.operationsLatencyMillis) :
             WholeNonNegative(v, now - last'.arg.opsExecTime)
    /\ CronPosts =>
          \A v \in NewValues(cjm.jobExecutionLatencyMillis, cjm'.jobExecutionLatencyMillis) :
             WholeNonNegative(v, now - last'.arg.opsExecTime)
    /\ DSPosts =>
          \A v \in NewValues(dsm.httpRequestsLatencyMillis, dsm'.httpRequestsLatencyMillis) :
             WholeNonNegative(v, last'.arg.httpMetrics.ResponseTime)
    /\ PSPosts =>
          \A v \in NewValues(psm.messagesPublishedLatencyMillis,
                             psm'.messagesPublishedLatencyMillis) :
             WholeNonNegative(v, last'.arg.eventTxnData.TimeTakenToPublish)
    /\ RouterObserves =>
          \A v \in NewValues(rlm.httpRequestsLatencyMillis, rlm'.httpRequestsLatencyMillis) :
             WholeNonNegative(v, now - gc.entered)

\* C13 as stated: every value observed on a latency histogram, in every
\* domain including the Router middleware, is the measured duration truncated
\* toward zero to a whole number of milliseconds, and is never negative.
C13_LatencyWholeAndNonNegative == [][C13_OriginalStep]_vars

C13_AmendedStep ==
    /\ DBPosts =>
          \A v \in NewValues(dm.operationsLatencyMillis, dm'.operationsLatencyMillis) :
             WholeNonNegative(v, now - last'.arg.opsExecTime)
    /\ CronPosts =>
          \A v \in NewValues(cjm.jobExecutionLatencyMillis, cjm'.jobExecutionLatencyMillis) :
             WholeNonNegative(v, now - last'.arg.opsExecTime)
    /\ DSPosts =>
          \A v \in NewValues(dsm.httpRequestsLatencyMillis, dsm'.httpRequestsLatencyMillis) :
             LET d == last'.arg.httpMetrics.ResponseTime
             IN  TruncatedMillis(v, d) /\ (d >= 0 => v >= 0)
    /\ PSPosts =>
          \A v \in NewValues(psm.messagesPublishedLatencyMillis,
                             psm'.messagesPublishedLatencyMillis) :
             LET d == last'.arg.eventTxnData.TimeTakenToPublish
             IN  TruncatedMillis(v, d) /\ (d >= 0 => v >= 0)
    /\ RouterObserves =>
          \A v \in NewValues(rlm.httpRequestsLatencyMillis, rlm'.httpRequestsLatencyMillis) :
             v = now - gc.entered /\ v >= 0

\* C13, amended: every latency value of the Database and Cron Job domains is
\* the elapsed time truncated toward zero to whole milliseconds and is never
\* negative; every latency value of the Downstream and Pub/Sub domains is the
\* caller's duration truncated toward zero to whole milliseconds, and is
\* non-negative whenever that duration is; the Router middleware observes the
\* elapsed time in milliseconds with its fraction, untruncated, never negative.
C13_TruncatedExceptRouter == [][C13_AmendedStep]_vars

\* A Downstream LogMetricsPost given a negative ResponseTime of more than one
\* millisecond recorded a negative whole number of milliseconds.
C13_Witness ==
    /\ last.op \in DSPostOps /\ Given(last.arg)
    /\ ~dsm.httpRequestsLatencyMillis.nil
    /\ last.arg.httpMetrics.ResponseTime < 0 - Millisecond
    /\ \E x \in BagToSet(dsm.httpRequestsLatencyMillis.samples) :
          x[2] < 0 /\ x[2] % Millisecond = 0

---------------------------------------------------------------------------
(* C14 *)

\* The LogMetricsPre methods that return a start marker, of every variant.
MarkerPreOps ==
    { "DBMetrics.LogMetricsPre", "CronJobMetrics.LogMetricsPre",
      "PromDBMetrics.LogMetricsPre", "PromCronJobMetrics.LogMetricsPre",
      "PSMetrics.LogMetricsPre", "PromPSMetrics.LogMetricsPre",
      "NoOpPromDBMetrics.LogMetricsPre", "NoOpPromCronJobMetrics.LogMetricsPre",
      "NoOpPromPSMetrics.LogMetricsPre",
      "MockDBMetrics.LogMetricsPre", "MockCronJobMetrics.LogMetricsPre",
      "MockPSMetrics.LogMetricsPre" }

C14_Step ==
    /\ now' >= now
    /\ (last'.op \in MarkerPreOps /\ nPre' = nPre + 1 /\ Given(last'.arg)) =>
          /\ ~last'.panic
          /\ last'.ret = [nil |-> FALSE, t |-> now]
          /\ \A p \in BagToSet(pending) : p.start <= last'.ret.t
          /\ (last.op \in MarkerPreOps) => last.ret.t <= last'.ret.t

\* C14: LogMetricsPre of the Database, Cron Job and Pub/Sub domains returns
\* the clock value at the moment of the call, whichever sub-metrics are
\* enabled, in the live, the No-Op and the Mock variant alike; the clock never
\* goes back, so a marker is never smaller than one returned before it.
C14_PreReturnsNow == [][C14_Step]_vars

\* A Mock Database LogMetricsPre returned the current, non-zero clock value
\* while an earlier operation holds a smaller marker.
C14_Witness ==
    /\ last.op = "MockDBMetrics.LogMetricsPre"
    /\ now > 0
    /\ last.ret = [nil |-> FALSE, t |-> now]
    /\ \E p \in BagToSet(pending) : p.start < now

---------------------------------------------------------------------------
(* C15 *)

\* How often code c occurs in the list errCodes.
Occurrences(c, errCodes) == Cardinality({ i \in 1..Len(errCodes) : errCodes[i] = c })

\* The codes whose gauge may be looked at: those a caller may pass and those
\* the gauge holds a child for.
GaugeCodes(vec) == AppErrorCodes \cup { lvs[1] : lvs \in DOMAIN vec.vals }

AppLogs ==
    /\ last'.op \in {"AppMetrics.LogMetrics", "PromAppMetrics.LogMetrics"}
    /\ nCalls' = nCalls + 1
AppDecrements ==
    /\ last'.op \in {"AppMetrics.DecrementAppErrorCount", "PromAppMetrics.DecrementAppErrorCount"}
    /\ nCalls' = nCalls + 1

C15_Step ==
    LET old == cm.applicationErrorsCounter
        new == cm'.applicationErrorsCounter
    IN  /\ (AppLogs /\ ~old.nil) =>
              /\ ~last'.panic
              /\ \A c \in GaugeCodes(old) \cup GaugeCodes(new) :
                    GaugeValue(new, <<c>>) =
                        GaugeValue(old, <<c>>) + Occurrences(c, last'.arg.errCodes)
        /\ (AppDecrements /\ ~old.nil) =>
              /\ ~last'.panic
              /\ \A c \in GaugeCodes(old) \cup GaugeCodes(new) :
                    GaugeValue(new, <<c>>) =
                        GaugeValue(old, <<c>>) - (IF c = last'.arg.errCode THEN 1 ELSE 0)

\* C15: with the gauge configured, LogMetrics(errCodes) raises the gauge of
\* every code by the number of times the list names it (by k for a code
\* listed k times, by nothing for an unlisted code or an empty list), and
\* DecrementAppErrorCount(c) lowers the gauge of c by exactly one and leaves
\* every other code's gauge as it was.
C15_GaugePerOccurrence == [][C15_Step]_vars

\* LogMetrics was given the same code twice and that code's gauge stands at
\* two, the other code's at zero.
C15_Witness ==
    /\ last.op = "AppMetrics.LogMetrics"
    /\ last.arg.errCodes = <<"ERR_VALIDATION", "ERR_VALIDATION">>
    /\ ~cm.applicationErrorsCounter.nil
    /\ GaugeValue(cm.applicationErrorsCounter, <<"ERR_VALIDATION">>) = 2
    /\ GaugeValue(cm.applicationErrorsCounter, <<"ERR_DB_CONNECTION">>) = 0

---------------------------------------------------------------------------
(* C16 *)

\* The sub-metric fields of a metric set and the configuration fields they
\* are built from, per constructor.
MetaFields ==
    [ NewPromDatabaseMetrics |->
        [ operationsTotal |-> "OperationsTotal",
          operationsLatencyMillis |-> "OperationsLatencyMillis" ],
      NewPromCronJobMetrics |->
        [ jobExecutionTotal |-> "JobExecutionTotal",
          jobExecutionLatencyMillis |-> "JobExecutionLatencyMillis" ],
      NewPromDownstreamServiceMetrics |->
        [ httpRequests |-> "HTTPRequests",
          httpRequestsLatencyMillis |-> "HTTPRequestsLatencyMillis",
          httpRequestSizeBytes |-> "HTTPRequestSizeBytes",
          httpResponseSizeBytes |-> "HTTPResponseSizeBytes" ],
      NewPromPubSubMetrics |->
        [ totalMessagesConsumed |-> "TotalMessagesConsumed",
          totalMessagesPublished |-> "TotalMessagesPublished",
          messagesPublishedLatencyMillis |-> "MessagesPublishedLatencyMillis",
          messagesPublishedSizeBytes |-> "MessagesPublishedSizeBytes" ],
      NewPromAppMetrics |-> [ applicationErrorsCounter |-> "ApplicationErrorsCounter" ] ]

ConstructorNames ==
    [ NewPromDatabaseMetrics |-> MetricNames.Database,
      NewPromCronJobMetrics |-> MetricNames.CronJob,
      NewPromDownstreamServiceMetrics |-> MetricNames.Downstream,
      NewPromPubSubMetrics |-> MetricNames.PubSub,
      NewPromAppMetrics |-> MetricNames.App ]

Constructs == last'.op \in DOMAIN MetaFields /\ nCalls' = nCalls + 1

\* The calls made on handles the constructors returned.
UsesHandles ==
    /\ domain = "Registry" /\ Given(last'.arg)
    /\ \/ last'.op \in DSPreOps /\ nPre' = nPre + 1
       \/ last'.op \in DSPostOps /\ nPost' = nPost + 1
       \/ last'.op = "PromAppMetrics.LogMetrics" /\ nCalls' = nCalls + 1

C16_Step ==
    /\ Constructs =>
          LET fields == MetaFields[last'.op]
              names  == ConstructorNames[last'.op]
              meta   == last'.arg.meta
              set    == last'.ret
              wanted == { f \in DOMAIN fields : ~meta[fields[f]].nil }
              taken  == { f \in wanted : <<Namespace, names[f]>> \in registry }
          IN  /\ ~last'.panic /\ ~fault'
              /\ \A f \in DOMAIN fields : set[f].nil <=> f \notin wanted
              /\ \A f \in wanted : set[f].labels = meta[fields[f]].Labels
              /\ logged' = logged + Cardinality(taken)
              /\ registry' = registry \cup { <<Namespace, names[f]>> : f \in wanted }
    /\ (last'.op = "GetPromSummaryVec" /\ nCalls' = nCalls + 1) =>
          /\ ~last'.panic /\ ~fault'
          /\ ~last'.ret.nil /\ ObsCount(last'.ret) = 1
          /\ logged' = logged +
                 (IF <<Namespace, last'.arg.meta.Name>> \in registry THEN 1 ELSE 0)
          /\ registry' = registry \cup {<<Namespace, last'.arg.meta.Name>>}
    /\ UsesHandles =>
          /\ ~last'.panic /\ ~fault'
          /\ registry' = registry /\ logged' = logged
          /\ (last'.op \in DSPostOps /\ ~dsm.httpRequestsLatencyMillis.nil) =>
                ObsCount(dsm'.httpRequestsLatencyMillis) =
                    ObsCount(dsm.httpRequestsLatencyMillis) + 1
          /\ (last'.op = "PromAppMetrics.LogMetrics" /\ ~cm.applicationErrorsCounter.nil) =>
                \A c \in AppErrorCodes :
                   GaugeValue(cm'.applicationErrorsCounter, <<c>>) =
                       GaugeValue(cm.applicationErrorsCounter, <<c>>)
                           + Occurrences(c, last'.arg.errCodes)

\* C16: a constructor of the prometheus subpackage never faults, whatever is
\* registered already: for every configured sub-metric it returns a non-nil
\* handle with the configured labels, registers the name if it is free, and
\* otherwise logs one error per name already taken and goes on.  The same
\* holds for a summary obtained from the adapter.  Increment and observe
\* calls on the handles succeed, also on handles whose registration failed.
C16_DuplicateRegistrationNonFatal == [][C16_Step]_vars

\* A second NewPromDownstreamServiceMetrics found all four names taken, four
\* errors were logged, and a LogMetricsPost on the set it returned recorded
\* the outcome and the latency.
C16_Witness ==
    /\ domain = "Registry"
    /\ logged = 4
    /\ last.op = "PromDownstreamServiceMetrics.LogMetricsPost"
    /\ ~fault
    /\ OutcomeSum(dsm.httpRequests) = 1
    /\ ObsCount(dsm.httpRequestsLatencyMillis) = 1

---------------------------------------------------------------------------
(* C17 *)

\* The bucket generator was called with (start, factor, count).
Generated(start, factor, count) ==
    /\ last.op = "GetPromExponentialBuckets"
    /\ last.arg = [start |-> start, factor |-> factor, count |-> count]

\* C17: called with start > 0, factor > 1 and count >= 1, the bucket generator
\* returns without fault exactly count boundaries, the i-th (from zero) being
\* start * factor^i, each greater than the one before; (10, 2, 5) gives
\* 10, 20, 40, 80, 160; (1, 2, 1) gives 1; (10, 2, 10) gives 10 up to 5120.
C17_ExponentialBuckets ==
    /\ (last.op = "GetPromExponentialBuckets"
          /\ last.arg.start > 0 /\ last.arg.factor > 1 /\ last.arg.count >= 1) =>
          /\ ~last.panic /\ ~fault
          /\ Len(last.ret) = last.arg.count
          /\ \A i \in 1..Len(last.ret) :
                last.ret[i] = last.arg.start * last.arg.factor ^ (i - 1)
          /\ \A i \in 1..(Len(last.ret) - 1) : last.ret[i] < last.ret[i + 1]
    /\ Generated(10, 2, 5) => last.ret = <<10, 20, 40, 80, 160>>
    /\ Generated(1, 2, 1) => last.ret = <<1>>
    /\ Generated(10, 2, 10) =>
          last.ret = <<10, 20, 40, 80, 160, 320, 640, 1280, 2560, 5120>>

\* The generator was asked for ten boundaries from 10 with factor 2 and its
\* last boundary is 5120.
C17_Witness ==
    /\ Generated(10, 2, 10)
    /\ Len(last.ret) = 10
    /\ last.ret[10] = 5120

---------------------------------------------------------------------------
(* C18 *)

NoOpPreOps ==
    { "NoOpPromDBMetrics.LogMetricsPre", "NoOpPromCronJobMetrics.LogMetricsPre",
      "NoOpPromPSMetrics.LogMetricsPre" }

\* The live metrics of the process, the registerer and the logger.
Observable == <<dm, cjm, dsm, psm, rlm, cm, registry, logged, exposed>>

\* The No-Op middleware is entered for a request; it returns.
NoOpEnters == impl = "noop" /\ gc.nil /\ ~gc'.nil
NoOpReturns == impl = "noop" /\ ~gc.nil /\ gc'.nil

C18_Step ==
    /\ (impl = "noop" \/ last'.op = "NewNoOp") => (Observable' = Observable /\ ~fault')
    /\ (last'.op \in NoOpPreOps /\ nPre' = nPre + 1) =>
          last'.ret = [nil |-> FALSE, t |-> now]
    /\ NoOpEnters => gc'.nextCalls = 0
    /\ NoOpReturns => gc.nextCalls = 1

\* C18: no step of a run on No-Op metric sets, and no construction of a
\* No-Op metric set, changes a metric value, the registry or the log, or
\* faults; the No-Op LogMetricsPre of the Database, Cron Job and Pub/Sub
\* domains returns the clock value of the call; the No-Op Router middleware
\* has called the next handler exactly once when it returns, for the metrics
\* path as for any other.
C18_NoOpTouchesNothing == [][C18_Step]_vars

\* Two No-Op Database operations ran from Pre to Post at a non-zero time
\* beside a fully configured live Database metric set, which is still empty.
C18_Witness ==
    /\ domain = "Database" /\ impl = "noop"
    /\ last.op = "NoOpPromDBMetrics.LogMetricsPost"
    /\ nPre = 2 /\ nPost = 2 /\ now > 0
    /\ ~dm.operationsTotal.nil /\ ~dm.operationsLatencyMillis.nil
    /\ TotalSum(dm.operationsTotal) = 0
    /\ ObsCount(dm.operationsLatencyMillis) = 0

---------------------------------------------------------------------------
(* C19 *)

MockPreOps ==
    { "MockDBMetrics.LogMetricsPre", "MockCronJobMetrics.LogMetricsPre",
      "MockDownstreamServiceMetrics.LogMetricsPre", "MockPSMetrics.LogMetricsPre" }
MockPostOps ==
    { "MockDBMetrics.LogMetricsPost", "MockCronJobMetrics.LogMetricsPost",
      "MockDownstreamServiceMetrics.LogMetricsPost", "MockPSMetrics.LogMetricsPost" }

MockPreCalled == last'.op \in MockPreOps /\ nPre' = nPre + 1
MockPostCalled == last'.op \in MockPostOps /\ nPost' = nPost + 1
MockAppLogCalled == last'.op = "MockAppMetrics.LogMetrics" /\ nCalls' = nCalls + 1
MockAppDecCalled == last'.op = "MockAppMetrics.DecrementAppErrorCount" /\ nCalls' = nCalls + 1
MockRouterCalled == last'.op = "MockRouterMetrics.LogMetrics" /\ nPre' = nPre + 1

\* What the fields of the Mock recorded for LogMetricsPost equal after a call.
PostRecorded(m, arg) ==
    CASE domain \in {"Database", "CronJob"} ->
           m.LogMetricsPostAppErr = arg.appErr /\ m.LogMetricsPostLabelValues = arg.lv
      [] domain = "Downstream" ->
           /\ m.LogMetricsPostSuccess = arg.success
           /\ m.LogMetricsPostLabelValues = arg.lv
           /\ m.LogMetricsPostHTTPMetrics = arg.httpMetrics
      [] domain = "PubSub" ->
           /\ m.LogMetricsPostLabelValues = arg.lv
           /\ m.LogMetricsPostEventTxnData = arg.eventTxnData

\* The fields other than the flag and recorded arguments of LogMetricsPre.
PostFields(m) == [f \in DOMAIN m \ {"LogMetricsPreCalled", "LogMetricsPreLabelValues"} |-> m[f]]
PreFields(m) == [f \in {"LogMetricsPreCalled", "LogMetricsPreLabelValues"} |-> m[f]]

\* Before any call the flags are down; with a Pre/Post pair, a flag is up iff
\* its method was called.
C19_Flags ==
    impl = "mock" =>
       /\ (nPre = 0 /\ nPost = 0 /\ nCalls = 0) => mock = NewMock(domain)
       /\ domain \in {"Database", "CronJob", "Downstream", "PubSub"} =>
             /\ mock.LogMetricsPreCalled <=> nPre >= 1
             /\ mock.LogMetricsPostCalled <=> nPost >= 1
       /\ domain = "Router" => (mock.LogMetricsCalled <=> nPre >= 1)
       /\ domain = "App" =>
             (mock.LogMetricsCalled \/ mock.DecrementAppErrorCountCalled) <=> nCalls >= 1

C19_Step ==
    impl = "mock" =>
       /\ Observable' = Observable /\ ~fault'
       /\ MockPreCalled =>
             /\ mock'.LogMetricsPreCalled
             /\ mock'.LogMetricsPreLabelValues = last'.arg.lv
             /\ PostFields(mock') = PostFields(mock)
       /\ MockPostCalled =>
             /\ mock'.LogMetricsPostCalled
             /\ PostRecorded(mock', last'.arg)
             /\ PreFields(mock') = PreFields(mock)
       /\ MockAppLogCalled =>
             /\ mock'.LogMetricsCalled
             /\ mock'.LogMetricsErrCodes = last'.arg.errCodes
             /\ mock'.DecrementAppErrorCountCalled = mock.DecrementAppErrorCountCalled
             /\ mock'.DecrementAppErrorCountErrCode = mock.DecrementAppErrorCountErrCode
       /\ MockAppDecCalled =>
             /\ mock'.DecrementAppErrorCountCalled
             /\ mock'.DecrementAppErrorCountErrCode = last'.arg.errCode
             /\ mock'.LogMetricsCalled = mock.LogMetricsCalled
             /\ mock'.LogMetricsErrCodes = mock.LogMetricsErrCodes
       /\ MockRouterCalled =>
             mock'.LogMetricsCalled /\ mock'.LogMetricsPath = last'.arg.metricsPath
       /\ ~(MockPreCalled \/ MockPostCalled \/ MockAppLogCalled \/ MockAppDecCalled
              \/ MockRouterCalled) => mock' = mock

\* C19: a Mock's fields are the zero values until a method is called; a call
\* raises the flag of its method and stores its arguments in that method's
\* fields, and leaves the other method's flag and fields as they were; no
\* other step changes the Mock, so no flag is ever lowered and the recorded
\* arguments are those of the most recent call; no step of a run on a Mock
\* changes a metric value, the registry or the log.
C19_MockRecordsCalls == []C19_Flags /\ [][C19_Step]_vars

\* A Mock Database set saw LogMetricsPre twice and then LogMetricsPost with
\* other label values: both flags are up, the Pre fields hold the second
\* Pre's label values and the Post fields those of the Post.
C19_Witness ==
    /\ domain = "Database" /\ impl = "mock"
    /\ last.op = "MockDBMetrics.LogMetricsPost"
    /\ nPre = 2 /\ nPost = 1
    /\ mock.LogMetricsPreCalled /\ mock.LogMetricsPostCalled
    /\ mock.LogMetricsPostLabelValues = last.arg.lv
    /\ mock.LogMetricsPostAppErr = last.arg.appErr
    /\ mock.LogMetricsPreLabelValues # mock.LogMetricsPostLabelValues

---------------------------------------------------------------------------
(* C20 *)

\* The counter and the latency histogram the goroutines share.
SharedCounter == IF domain = "Database" THEN dm.operationsTotal ELSE cjm.jobExecutionTotal
SharedLatency ==
    IF domain = "Database" THEN dm.operationsLatencyMillis ELSE cjm.jobExecutionLatencyMillis

\* Number of goroutines at one of the positions pcs.
At(pcs) == Cardinality({i \in DOMAIN threads : threads[i].pc \in pcs})

\* Some step of goroutine i.
GoStep(i) ==
    /\ \/ GoDBLogMetricsPre \/ GoDBLogMetricsPostInc \/ GoDBLogMetricsPostObserve
       \/ GoCronLogMetricsPre \/ GoCronLogMetricsPostInc \/ GoCronLogMetricsPostObserve
    /\ threads'[i] # threads[i]

\* C20: when K goroutines each call LogMetricsPre and then LogMetricsPost on
\* one live Database or Cron Job metric set, under every interleaving of their
\* atomic increments and observations no update is lost: the "total" sum
\* equals the number of goroutines whose LogMetricsPre has run, the success +
\* failure sum the number whose outcome was counted and the number of latency
\* observations the number that finished, so that once all K have finished
\* each has grown by K; and no goroutine ever waits for another: each that
\* has not finished can take its next step whatever the others are doing.
C20_NoUpdateLostNoneBlocked ==
    threads # <<>> /\ ~fault =>
        /\ ~SharedCounter.nil =>
              /\ TotalSum(SharedCounter) = At({"post", "observe", "done"})
              /\ OutcomeSum(SharedCounter) = At({"observe", "done"})
        /\ ~SharedLatency.nil => ObsCount(SharedLatency) = At({"done"})
        /\ At({"done"}) = Len(threads) =>
              /\ ~SharedCounter.nil =>
                    /\ TotalSum(SharedCounter) = Len(threads)
                    /\ OutcomeSum(SharedCounter) = Len(threads)
        /\ \A i \in DOMAIN threads : threads[i].pc # "done" => ENABLED GoStep(i)

\* All of MaxThreads goroutines have finished, and all of them incremented
\* the same "total" series of the shared counter.
C20_Witness ==
    /\ Len(threads) = MaxThreads /\ ~fault
    /\ At({"done"}) = MaxThreads
    /\ ~SharedCounter.nil /\ ~SharedLatency.nil
    /\ \E lvs \in BagToSet(SharedCounter.samples) :
           /\ lvs[StatusPos(SharedCounter)] = Total
           /\ CopiesIn(lvs, SharedCounter.samples) = MaxThreads

---------------------------------------------------------------------------
(* C21 *)

\* The sum of the values of a function with a finite domain.
RECURSIVE SumFn(_)
SumFn(w) ==
    IF DOMAIN w = {} THEN 0
    ELSE LET x == CHOOSE y \in DOMAIN w : TRUE
         IN  w[x] + SumFn([y \in DOMAIN w \ {x} |-> w[y]])

\* The header values of request r, each named by its header and its index.
HeaderValues(r) == { <<name, i>> : name \in DOMAIN r.Header, i \in 1..3 } \cap
                   { p \in (DOMAIN r.Header) \X (1..3) : p[2] <= Len(r.Header[p[1]]) }

\* The parts of the size of request r other than its content length.
SizeWithoutContent(r) ==
      (IF r.URL.nil THEN 0 ELSE Len(r.URL.Path))
    + Len(r.Method) + Len(r.Proto)
    + SumFn([name \in DOMAIN r.Header |-> Len(name)])
    + SumFn([p \in HeaderValues(r) |-> Len(r.Header[p[1]][p[2]])])
    + Len(r.Host)

\* The size of r as documented.
DocumentedSize(r) ==
    SizeWithoutContent(r) + (IF r.ContentLength = 0 - 1 THEN 0 ELSE r.ContentLength)

\* C21: the approximate request size is the URL path length (0 without a
\* URL) plus the lengths of the method, of the protocol, of every header name
\* once and of every header value, and of the host, plus the content length
\* when it is known; an unknown content length (-1) adds nothing, so the size
\* is never below the sum of the other parts.  This holds of a direct call and
\* of the size the Router middleware takes of the request it is entered with.
C21_ApproximateRequestSize ==
    /\ last.op = "computeApproximateRequestSize" =>
          /\ last.ret = DocumentedSize(last.arg)
          /\ last.ret >= SizeWithoutContent(last.arg)
    /\ impl = "root" /\ ~gc.nil /\ ~fault /\ ~gc.skip =>
          /\ gc.reqSize = Float64(DocumentedSize(gc.entry))
          /\ gc.reqSize >= Float64(SizeWithoutContent(gc.entry))

\* The size was taken of a request without a URL and with an unknown content
\* length, whose headers carry three values under two names.
C21_Witness ==
    /\ last.op = "computeApproximateRequestSize"
    /\ last.arg.URL.nil /\ last.arg.ContentLength = 0 - 1
    /\ Cardinality(HeaderValues(last.arg)) = 3
    /\ last.ret = 3 + 8 + 6 + 4 + 9 + 3 + 1

---------------------------------------------------------------------------
(* C22 *)

\* The LogMetricsPre and LogMetricsPost calls of the live metric sets, whole
\* or as the steps of a goroutine.
LivePrePostOps ==
    { "DBMetrics.LogMetricsPre", "DBMetrics.LogMetricsPost",
      "CronJobMetrics.LogMetricsPre", "CronJobMetrics.LogMetricsPost",
      "PromDBMetrics.LogMetricsPre", "PromDBMetrics.LogMetricsPost",
      "PromCronJobMetrics.LogMetricsPre", "PromCronJobMetrics.LogMetricsPost",
      "DownstreamServiceMetrics.LogMetricsPre", "DownstreamServiceMetrics.LogMetricsPost",
      "PromDownstreamServiceMetrics.LogMetricsPre",
      "PromDownstreamServiceMetrics.LogMetricsPost",
      "PSMetrics.LogMetricsPre", "PSMetrics.LogMetricsPost",
      "PromPSMetrics.LogMetricsPre", "PromPSMetrics.LogMetricsPost",
      "go DBMetrics.LogMetricsPre", "go DBMetrics.LogMetricsPost.Inc",
      "go DBMetrics.LogMetricsPost",
      "go CronJobMetrics.LogMetricsPre", "go CronJobMetrics.LogMetricsPost.Inc",
      "go CronJobMetrics.LogMetricsPost" }

\* A step of one of those calls.
LivePrePostStep ==
    /\ last'.op \in LivePrePostOps
    /\ nPre' = nPre + 1 \/ nPost' = nPost + 1 \/ threads' # threads

\* Which sub-metric handles a metric set holds: whether each is nil, and the
\* label names of the metric it refers to.
HandlesOf(set) ==
    [f \in DOMAIN set |-> [nil |-> set[f].nil, labels |-> set[f].labels]]

\* The metric set holds handles to counters and histograms and nothing else:
\* it has no place in which an argument of a call is kept.
OnlyHandles(set) ==
    \A f \in DOMAIN set : DOMAIN set[f] = {"nil", "labels", "samples"}

C22_Step ==
    LivePrePostStep =>
        /\ HandlesOf(dm') = HandlesOf(dm) /\ HandlesOf(cjm') = HandlesOf(cjm)
        /\ HandlesOf(dsm') = HandlesOf(dsm) /\ HandlesOf(psm') = HandlesOf(psm)
        /\ HandlesOf(rlm') = HandlesOf(rlm) /\ cm' = cm
        /\ DOMAIN dm' = DOMAIN dm /\ DOMAIN cjm' = DOMAIN cjm
        /\ DOMAIN dsm' = DOMAIN dsm /\ DOMAIN psm' = DOMAIN psm
        /\ OnlyHandles(dm') /\ OnlyHandles(cjm') /\ OnlyHandles(dsm') /\ OnlyHandles(psm')
        /\ last'.op \in MarkerPreOps \cup DSPreOps /\ ~last'.panic =>
              \E p \in BagToSet(pending') : p.lv = last'.arg.lv
        /\ registry' = registry /\ logged' = logged

ArgumentMissing ==
    \/ last.arg.lv = Nil
    \/ "httpMetrics" \in DOMAIN last.arg /\ last.arg.httpMetrics = Nil

---------------------------------------------------------------------------
(* C23 *)

\* The values a label takes, by its documented name: those of the field of
\* the caller's label values (or of the request) it is documented to carry.
IsValueOf(name, x) ==
    CASE name = "op_type" -> x \in { lv.OpType : lv \in DBLabelValues } \cup
                                   { lv.EntityOpType : lv \in PSLabelValues }
      [] name = "source" -> x \in { lv.Source : lv \in DBLabelValues } \cup
                                  { lv.Source : lv \in PSLabelValues }
      [] name = "entity" -> x \in { lv.AdEntity : lv \in DBLabelValues } \cup
                                  { lv.Entity : lv \in PSLabelValues }
      [] name = "is_txn" -> x \in { lv.IsTxn : lv \in DBLabelValues }
      [] name = "job_name" -> x \in { lv.JobName : lv \in CronJobLabelValues }
      [] name = "service" -> x \in { lv.Name : lv \in DownstreamServiceLabelValues }
      [] name = "api" -> x \in { lv.APIIdentifier : lv \in DownstreamServiceLabelValues }
      [] name = "method" -> x \in { lv.HTTPMethod : lv \in DownstreamServiceLabelValues } \cup
                                  { h.Method : h \in HTTPMetricsValues } \cup
                                  { r.Method : r \in Requests }
      [] name = "path" -> x \in { r.FullPath : r \in Requests }
      [] name = "error_code" -> x \in PSErrorCodes
      [] name = "status" -> x \in {Total, Success, Failure}
      [] name = "code" -> \A k \in 1..Len(x) : IsDigit(x[k]) \/ (k = 1 /\ x[k] = "-")

\* The label values lvs are as many as the label names, and each is a value
\* of the label at its position.
Fits(labels, lvs) ==
    /\ Len(lvs) = Len(labels)
    /\ \A i \in 1..Len(labels) : IsValueOf(labels[i], lvs[i])

CounterFits(vec, labels) ==
    ~vec.nil => vec.labels = labels /\ \A lvs \in BagToSet(vec.samples) : Fits(labels, lvs)

HistogramFits(vec, labels) ==
    ~vec.nil => vec.labels = labels /\ \A s \in BagToSet(vec.samples) : Fits(labels, s[1])

\* C23: every logging call supplies its label values in the positional order
\* and count of the documented label list: each series of the Database
\* counter is (op_type, source, entity, is_txn, status), of the Cron counter
\* (job_name, status), of the Downstream counter (service, method, code, api,
\* status), of the Pub/Sub consumed counter (source, entity, op_type, status,
\* error_code), of the Pub/Sub published counter (entity, op_type, status), of
\* the Router counter (method, code, path, status), and of each histogram the
\* counter's list without status and error_code; LogMetricsPre and
\* LogMetricsPost pass equally many values with the status in the same
\* position, and no call fails over the number of its label values.
C23_LabelValuesInDocumentedOrder ==
    impl \in {"root", "prom"} =>
        /\ CounterFits(dm.operationsTotal, <<"op_type", "source", "entity", "is_txn", "status">>)
        /\ HistogramFits(dm.operationsLatencyMillis, <<"op_type", "source", "entity", "is_txn">>)
        /\ CounterFits(cjm.jobExecutionTotal, <<"job_name", "status">>)
        /\ HistogramFits(cjm.jobExecutionLatencyMillis, <<"job_name">>)
        /\ CounterFits(dsm.httpRequests, <<"service", "method", "code", "api", "status">>)
        /\ \A f \in {"httpRequestsLatencyMillis", "httpRequestSizeBytes",
                     "httpResponseSizeBytes"} :
              /\ HistogramFits(dsm[f], <<"service", "method", "code", "api">>)
              /\ HistogramFits(rlm[f], <<"method", "code", "path">>)
        /\ CounterFits(psm.totalMessagesConsumed,
                       <<"source", "entity", "op_type", "status", "error_code">>)
        /\ CounterFits(psm.totalMessagesPublished, <<"entity", "op_type", "status">>)
        /\ HistogramFits(psm.messagesPublishedLatencyMillis, <<"entity", "op_type">>)
        /\ HistogramFits(psm.messagesPublishedSizeBytes, <<"entity", "op_type">>)
        /\ CounterFits(rlm.httpRequests, <<"method", "code", "path", "status">>)
        /\ last.op \in LivePrePostOps /\ last.panic => ArgumentMissing

\* A Downstream Service operation has been counted by LogMetricsPre and by
\* LogMetricsPost in the same counter, and observed in the latency histogram.
C23_Witness ==
    /\ domain = "Downstream" /\ ~fault /\ ~dsm.httpRequests.nil
    /\ ~dsm.httpRequestsLatencyMillis.nil
    /\ TotalSum(dsm.httpRequests) = 1 /\ OutcomeSum(dsm.httpRequests) = 1
    /\ ObsCount(dsm.httpRequestsLatencyMillis) = 1

---------------------------------------------------------------------------
(* C24 *)

\* The operations between their total increment and their outcome increment:
\* those whose LogMetricsPre has returned and whose LogMetricsPost has not
\* been called, the goroutines between the two, and the request the Router
\* middleware has counted and handed to the next handler.
InFlight ==
      BagCardinality(pending) + At({"post"})
    + (IF domain = "Router" /\ ~gc.nil /\ ~gc.skip THEN 1 ELSE 0)

\* The counter trails its totals by the operations in flight.
Trails(vec) ==
    ~vec.nil =>
        /\ OutcomeSum(vec) <= TotalSum(vec)
        /\ TotalSum(vec) - OutcomeSum(vec) = InFlight
        /\ InFlight = 0 => OutcomeSum(vec) = TotalSum(vec)

\* C24: for the Database, Cron Job, Downstream Service and Router counters, in
\* every interleaving of operations in which each LogMetricsPost follows its
\* own LogMetricsPre, every reachable state has success + failure <= total
\* (summed over the label series), the difference being the number of
\* operations between their Pre and their Post; the two are equal whenever no
\* operation is in flight.
C24_OutcomesTrailTotals ==
    /\ impl \in {"root", "prom"} /\ ~fault
    /\ domain \in {"Database", "CronJob", "Downstream", "Router"}
    => /\ Trails(dm.operationsTotal) /\ Trails(cjm.jobExecutionTotal)
       /\ Trails(dsm.httpRequests) /\ Trails(rlm.httpRequests)

\* A Cron Job operation is in flight after another has ended: the counter
\* holds two totals and one outcome.
C24_Witness ==
    /\ domain = "CronJob" /\ impl = "root" /\ ~fault /\ threads = <<>>
    /\ ~cjm.jobExecutionTotal.nil
    /\ BagCardinality(pending) = 1
    /\ TotalSum(cjm.jobExecutionTotal) = 2 /\ OutcomeSum(cjm.jobExecutionTotal) = 1

---------------------------------------------------------------------------
(* C25 *)

\* The metric set as it is when sub-metric g was not configured.
Without(set, g) == [set EXCEPT ![g] = NilVec]

C25_Step ==
    LET a == last'.arg
    IN  /\ (last'.op = "DBMetrics.LogMetricsPre" /\ nPre' = nPre + 1) =>
              \A g \in DOMAIN dm :
                  DBMetrics_LogMetricsPre(Without(dm, g), a.lv).set = Without(dm', g)
        /\ (last'.op = "DBMetrics.LogMetricsPost" /\ nPost' = nPost + 1) =>
              \A g \in DOMAIN dm :
                  DBMetrics_LogMetricsPost(Without(dm, g), a.appErr, a.lv, a.opsExecTime).set
                      = Without(dm', g)
        /\ (last'.op = "CronJobMetrics.LogMetricsPre" /\ nPre' = nPre + 1) =>
              \A g \in DOMAIN cjm :
                  CronJobMetrics_LogMetricsPre(Without(cjm, g), a.lv).set = Without(cjm', g)
        /\ (last'.op = "CronJobMetrics.LogMetricsPost" /\ nPost' = nPost + 1) =>
              \A g \in DOMAIN cjm :
                  CronJobMetrics_LogMetricsPost(Without(cjm, g), a.appErr, a.lv,
                                                a.opsExecTime).set = Without(cjm', g)
        /\ (last'.op = "DownstreamServiceMetrics.LogMetricsPre" /\ nPre' = nPre + 1) =>
              \A g \in DOMAIN dsm :
                  DownstreamServiceMetrics_LogMetricsPre(Without(dsm, g), a.lv).set
                      = Without(dsm', g)
        /\ (last'.op = "DownstreamServiceMetrics.LogMetricsPost" /\ nPost' = nPost + 1) =>
              \A g \in DOMAIN dsm :
                  DownstreamServiceMetrics_LogMetricsPost(Without(dsm, g), a.success, a.lv,
                                                          a.httpMetrics).set = Without(dsm', g)
        /\ (last'.op = "PromDownstreamServiceMetrics.LogMetricsPre" /\ nPre' = nPre + 1) =>
              \A g \in DOMAIN dsm :
                  PromDownstreamServiceMetrics_LogMetricsPre(Without(dsm, g), a.lv).set
                      = Without(dsm', g)
        /\ (last'.op = "PromDownstreamServiceMetrics.LogMetricsPost" /\ nPost' = nPost + 1) =>
              \A g \in DOMAIN dsm :
                  PromDownstreamServiceMetrics_LogMetricsPost(Without(dsm, g), a.success, a.lv,
                                                              a.httpMetrics).set
                      = Without(dsm', g)
        /\ (last'.op = "PSMetrics.LogMetricsPre" /\ nPre' = nPre + 1) =>
              \A g \in DOMAIN psm :
                  PSMetrics_LogMetricsPre(Without(psm, g), a.lv).set = Without(psm', g)
        /\ (last'.op = "PSMetrics.LogMetricsPost" /\ nPost' = nPost + 1) =>
              \A g \in DOMAIN psm :
                  PSMetrics_LogMetricsPost(Without(psm, g), a.lv, a.eventTxnData).set
                      = Without(psm', g)
        /\ (last'.op = "PromPSMetrics.LogMetricsPre" /\ nPre' = nPre + 1) =>
              \A g \in DOMAIN psm :
                  PromPSMetrics_LogMetricsPre(Without(psm, g), a.lv).set = Without(psm', g)
        /\ (last'.op = "PromPSMetrics.LogMetricsPost" /\ nPost' = nPost + 1) =>
              \A g \in DOMAIN psm :
                  PromPSMetrics_LogMetricsPost(Without(psm, g), a.lv, a.eventTxnData).set
                      = Without(psm', g)
        /\ (RouterEnters /\ ~fault') =>
              \A g \in DOMAIN rlm :
                  RouterMetrics_LogMetrics_Before(Without(rlm, g),
                      [Request |-> gc'.Request, FullPath |-> gc'.FullPath],
                      MetricsPath).m.set = Without(rlm', g)
        /\ RouterReturns =>
              \A g \in DOMAIN rlm :
                  RouterMetrics_LogMetrics_After(Without(rlm, g), gc, gc.skip, gc.start,
                                                 gc.reqSize, gc.urlPath).set = Without(rlm', g)

\* C25: sub-metrics are independent: whatever a logging call records on a
\* metric set, the same call on the set that differs only in having one
\* sub-metric disabled records the same on every other sub-metric, so that two
\* configurations differing in one sub-metric see, call after call, identical
\* observations on all the others (with the counter nil and the latency
\* histogram configured LogMetricsPost still records the latency; with only
\* the counter configured it still records the outcome).
C25_SubMetricsIndependent == [][C25_Step]_vars

\* A Cron Job LogMetricsPost has recorded the latency on a set without the
\* counter.
C25_Witness ==
    /\ domain = "CronJob" /\ impl = "root" /\ ~fault
    /\ last.op = "CronJobMetrics.LogMetricsPost"
    /\ cjm.jobExecutionTotal.nil /\ ~cjm.jobExecutionLatencyMillis.nil
    /\ ObsCount(cjm.jobExecutionLatencyMillis) = 1


---------------------------------------------------------------------------
(* C26: a second construction on the same registerer. *)

C26_Step ==
    domain = "Registry" =>
        /\ Constructs =>
              /\ ~last'.panic /\ ~fault'
              /\ \A f \in DOMAIN last'.ret :
                    LET fq == FQName(Namespace, ConstructorNames[last'.op][f])
                    IN  (~last'.arg.meta[MetaFields[last'.op][f]].nil /\ fq \in registry) =>
                           /\ ~last'.ret[f].nil
                           /\ last'.ret[f] \in { NewVec(last'.ret[f].labels),
                                                 NewGaugeVec(last'.ret[f].labels) }
                           /\ fq \in exposed'.rejected /\ fq \notin exposed'.held
                           /\ logged' > logged
                           /\ exposed'.collectors[fq] = exposed.collectors[fq]
        /\ UsesHandles =>
              \A fq \in exposed.rejected :
                  exposed'.collectors[fq] = exposed.collectors[fq]

\* C26: constructing a domain metric set again with the same namespace
\* succeeds; each configured handle of the second set is a fresh, live object
\* that is not the one the registerer holds (its registration was rejected as
\* a duplicate and logged), and no call logging through the second set changes
\* a value of the registered, exposed collector of the first set.
C26_SecondSetIsNotExposed == [][C26_Step]_vars

\* A Downstream Service LogMetricsPost recorded its outcome through a second
\* set whose counter was rejected, while the registered counter still shows
\* only the LogMetricsPre made through the first set.
C26_Witness ==
    LET fq == FQName(Namespace, MetricNames.Downstream.httpRequests)
    IN  /\ domain = "Registry" /\ ~fault
        /\ last.op = "PromDownstreamServiceMetrics.LogMetricsPost"
        /\ fq \in exposed.rejected
        /\ TotalSum(exposed.collectors[fq]) = 1 /\ OutcomeSum(exposed.collectors[fq]) = 0
        /\ TotalSum(dsm.httpRequests) = 0 /\ OutcomeSum(dsm.httpRequests) = 1


---------------------------------------------------------------------------
(* C27: the gauge as a net count. *)

\* LogMetrics([c]) and then DecrementAppErrorCount(c) on the set as it is.
LoggedThenDecremented(c) ==
    IF impl = "prom"
    THEN PromAppMetrics_DecrementAppErrorCount(PromAppMetrics_LogMetrics(cm, <<c>>).set, c)
    ELSE AppMetrics_DecrementAppErrorCount(AppMetrics_LogMetrics(cm, <<c>>).set, c)

\* C27: with the gauge configured and no call faulted, the gauge of every
\* error code equals the number of occurrences of the code in all LogMetrics
\* lists less the number of DecrementAppErrorCount calls for it, below zero
\* when the decrements outnumber the occurrences (there is no floor), and
\* LogMetrics([c]) followed by DecrementAppErrorCount(c) leaves the gauge of
\* every code at the value it has.
C27_GaugeIsOccurrencesLessDecrements ==
    (domain = "App" /\ impl \in {"root", "prom"} /\ ~fault
        /\ ~cm.applicationErrorsCounter.nil) =>
       /\ \A c \in GaugeCodes(cm.applicationErrorsCounter) :
             GaugeValue(cm.applicationErrorsCounter, <<c>>) = tally[c]
       /\ Len(cm.applicationErrorsCounter.labels) = 1 =>
             \A c \in AppErrorCodes :
                /\ ~LoggedThenDecremented(c).panic
                /\ \A e \in AppErrorCodes :
                      GaugeValue(LoggedThenDecremented(c).set.applicationErrorsCounter, <<e>>)
                          = GaugeValue(cm.applicationErrorsCounter, <<e>>)

\* DecrementAppErrorCount was called for a code more often than the code was
\* logged, and its gauge stands below zero.
C27_Witness ==
    /\ domain = "App" /\ impl = "root" /\ ~fault
    /\ last.op = "AppMetrics.DecrementAppErrorCount"
    /\ last.arg.errCode = "ERR_VALIDATION"
    /\ tally["ERR_VALIDATION"] = -1 /\ tally["ERR_DB_CONNECTION"] = 1
    /\ GaugeValue(cm.applicationErrorsCounter, <<"ERR_VALIDATION">>) = -1
    /\ GaugeValue(cm.applicationErrorsCounter, <<"ERR_DB_CONNECTION">>) = 1


---------------------------------------------------------------------------
(* C28: the root package and the prometheus subpackage. *)

\* The call that was made left the metric set and the fault flag as m.
Leaves(m, set) == m.set = set /\ m.panic = last'.panic

\* The constructors of the two packages return the same set for the same
\* configuration.
SameSets ==
    /\ \A meta \in DBMetricsMetas :
          NewPromDatabaseMetrics(EmptyRegistry, meta).set = NewDatabaseMetrics(meta)
    /\ \A meta \in CronJobMetricsMetas :
          NewPromCronJobMetrics(EmptyRegistry, meta).set = NewCronJobMetrics(meta)
    /\ \A meta \in DownstreamServiceMetricsMetas :
          NewPromDownstreamServiceMetrics(EmptyRegistry, meta).set
              = NewDownstreamServiceMetrics(meta)
    /\ \A meta \in PSMetricsMetas :
          NewPromPubSubMetrics(EmptyRegistry, meta).set = NewPubSubMetrics(meta)
    /\ \A meta \in AppMetricsMetas :
          NewPromAppMetrics(EmptyRegistry, meta).set = NewAppMetrics(meta)

C28_Step ==
    LET a == last'.arg
        pre == nPre' = nPre + 1
        post == nPost' = nPost + 1
        call == nCalls' = nCalls + 1
    IN  /\ SameSets
        /\ (last'.op = "DBMetrics.LogMetricsPre" /\ pre) =>
              Leaves(PromDBMetrics_LogMetricsPre(dm, a.lv), dm')
        /\ (last'.op = "PromDBMetrics.LogMetricsPre" /\ pre) =>
              Leaves(DBMetrics_LogMetricsPre(dm, a.lv), dm')
        /\ (last'.op = "DBMetrics.LogMetricsPost" /\ post) =>
              Leaves(PromDBMetrics_LogMetricsPost(dm, a.appErr, a.lv, a.opsExecTime), dm')
        /\ (last'.op = "PromDBMetrics.LogMetricsPost" /\ post) =>
              Leaves(DBMetrics_LogMetricsPost(dm, a.appErr, a.lv, a.opsExecTime), dm')
        /\ (last'.op = "CronJobMetrics.LogMetricsPre" /\ pre) =>
              Leaves(PromCronJobMetrics_LogMetricsPre(cjm, a.lv), cjm')
        /\ (last'.op = "PromCronJobMetrics.LogMetricsPre" /\ pre) =>
              Leaves(CronJobMetrics_LogMetricsPre(cjm, a.lv), cjm')
        /\ (last'.op = "CronJobMetrics.LogMetricsPost" /\ post) =>
              Leaves(PromCronJobMetrics_LogMetricsPost(cjm, a.appErr, a.lv, a.opsExecTime),
                     cjm')
        /\ (last'.op = "PromCronJobMetrics.LogMetricsPost" /\ post) =>
              Leaves(CronJobMetrics_LogMetricsPost(cjm, a.appErr, a.lv, a.opsExecTime), cjm')
        /\ (last'.op = "DownstreamServiceMetrics.LogMetricsPre" /\ pre) =>
              Leaves(PromDownstreamServiceMetrics_LogMetricsPre(dsm, a.lv), dsm')
        /\ (last'.op = "PromDownstreamServiceMetrics.LogMetricsPre" /\ pre) =>
              Leaves(DownstreamServiceMetrics_LogMetricsPre(dsm, a.lv), dsm')
        /\ (last'.op = "DownstreamServiceMetrics.LogMetricsPost" /\ post) =>
              Leaves(PromDownstreamServiceMetrics_LogMetricsPost(dsm, a.success, a.lv,
                                                                 a.httpMetrics), dsm')
        /\ (last'.op = "PromDownstreamServiceMetrics.LogMetricsPost" /\ post) =>
              Leaves(DownstreamServiceMetrics_LogMetricsPost(dsm, a.success, a.lv,
                                                             a.httpMetrics), dsm')
        /\ (last'.op = "PSMetrics.LogMetricsPre" /\ pre) =>
              Leaves(PromPSMetrics_LogMetricsPre(psm, a.lv), psm')
        /\ (last'.op = "PromPSMetrics.LogMetricsPre" /\ pre) =>
              Leaves(PSMetrics_LogMetricsPre(psm, a.lv), psm')
        /\ (last'.op = "PSMetrics.LogMetricsPost" /\ post) =>
              Leaves(PromPSMetrics_LogMetricsPost(psm, a.lv, a.eventTxnData), psm')
        /\ (last'.op = "PromPSMetrics.LogMetricsPost" /\ post) =>
              Leaves(PSMetrics_LogMetricsPost(psm, a.lv, a.eventTxnData), psm')
        /\ (last'.op = "AppMetrics.LogMetrics" /\ call) =>
              Leaves(PromAppMetrics_LogMetrics(cm, a.errCodes), cm')
        /\ (last'.op = "PromAppMetrics.LogMetrics" /\ call) =>
              Leaves(AppMetrics_LogMetrics(cm, a.errCodes), cm')
        /\ (last'.op = "AppMetrics.DecrementAppErrorCount" /\ call) =>
              Leaves(PromAppMetrics_DecrementAppErrorCount(cm, a.errCode), cm')
        /\ (last'.op = "PromAppMetrics.DecrementAppErrorCount" /\ call) =>
              Leaves(AppMetrics_DecrementAppErrorCount(cm, a.errCode), cm')

\* C28: the metric sets of the root package and those of the prometheus
\* subpackage behave alike: the constructors return the same set for the same
\* configuration, and every logging call of one package, on any set and with
\* any arguments, records exactly the increments and observations (and faults
\* exactly when) the counterpart of the other package does on the same set
\* with the same arguments, so that equal call sequences leave equal values
\* under the same metric names and label values.
C28_PackagesBehaveAlike == [][C28_Step]_vars

\* A Database LogMetricsPost of the subpackage has counted a failure and
\* observed a latency.
C28_Witness ==
    /\ domain = "Database" /\ impl = "prom" /\ ~fault
    /\ last.op = "PromDBMetrics.LogMetricsPost" /\ ~last.arg.appErr.nil
    /\ OutcomeSum(dm.operationsTotal) = 1
    /\ ObsCount(dm.operationsLatencyMillis) = 1


---------------------------------------------------------------------------
(* C29: which arguments a call with nothing configured reads. *)

\* Every sub-metric of the set was left out of the configuration.
AllDisabled(set) == \A f \in DOMAIN set : set[f].nil

\* C29: a Downstream Service LogMetricsPost (of either package) given a nil
\* HTTPMetrics faults whatever the configuration, with every sub-metric
\* disabled too, because it reads the response code before it tests any
\* sub-metric; a Database, Cron Job or Pub/Sub LogMetricsPre or LogMetricsPost
\* on a set with every sub-metric disabled does not fault and records
\* nothing, with nil label values and nil transaction data too, because it
\* reads neither.
C29_OnlyDownstreamPostReadsUnasked ==
    /\ (last.op \in {"DownstreamServiceMetrics.LogMetricsPost",
                     "PromDownstreamServiceMetrics.LogMetricsPost"}
          /\ last.arg.httpMetrics = Nil) => last.panic /\ fault
    /\ (last.op \in {"DBMetrics.LogMetricsPre", "DBMetrics.LogMetricsPost",
                     "PromDBMetrics.LogMetricsPre", "PromDBMetrics.LogMetricsPost"}
          /\ AllDisabled(dm)) => ~last.panic /\ ~fault
    /\ (last.op \in {"CronJobMetrics.LogMetricsPre", "CronJobMetrics.LogMetricsPost",
                     "PromCronJobMetrics.LogMetricsPre", "PromCronJobMetrics.LogMetricsPost"}
          /\ AllDisabled(cjm)) => ~last.panic /\ ~fault
    /\ (last.op \in {"PSMetrics.LogMetricsPre", "PSMetrics.LogMetricsPost",
                     "PromPSMetrics.LogMetricsPre", "PromPSMetrics.LogMetricsPost"}
          /\ AllDisabled(psm)) => ~last.panic /\ ~fault

\* A Downstream Service LogMetricsPost on a set with every sub-metric
\* disabled was given a nil HTTPMetrics and faulted.
C29_Witness ==
    /\ domain = "Downstream" /\ impl = "root"
    /\ last.op = "DownstreamServiceMetrics.LogMetricsPost"
    /\ last.arg.httpMetrics = Nil /\ AllDisabled(dsm)
    /\ last.panic /\ fault

\* A Pub/Sub LogMetricsPost on a set with every sub-metric disabled was given
\* nil label values and nil transaction data and returned.
C29_NothingReadReached ==
    /\ domain = "PubSub" /\ last.op = "PSMetrics.LogMetricsPost"
    /\ last.arg.lv = Nil /\ last.arg.eventTxnData = Nil /\ AllDisabled(psm)
    /\ ~last.panic /\ ~fault

===========================================================================
